---- MODULE Spec2Model ----
(***************************************************************************)
(* Model of the log ingestion pipeline (package logprocessor): the format  *)
(* grammars (tokenizer and the three line parsers), the bounded worker     *)
(* pool of ProcessFile, the two bounded queues and the mutex-guarded       *)
(* ProcessingStats counters.                                               *)
(*                                                                         *)
(* Text is modelled as a sequence of one-character strings, so that the    *)
(* tokenizer and the field parsers compute on the characters of a line as  *)
(* the Go code does.                                                       *)
(***************************************************************************)
EXTENDS Integers, Sequences, FiniteSets, TLC

(***************************************************************************)
(* Characters and the strings/strconv helpers the parsers call.            *)
(***************************************************************************)
SP == " "
TAB == "\t"
QUOTE == "\""
BACKSLASH == "\\"

Digits == {"0", "1", "2", "3", "4", "5", "6", "7", "8", "9"}

DigitVal(c) ==
  CASE c = "0" -> 0 [] c = "1" -> 1 [] c = "2" -> 2 [] c = "3" -> 3
    [] c = "4" -> 4 [] c = "5" -> 5 [] c = "6" -> 6 [] c = "7" -> 7
    [] c = "8" -> 8 [] c = "9" -> 9

\* unicode.IsSpace restricted to the characters a scanned line can hold here
\* (a line never holds "\n"; bufio.ScanLines cuts there).
IsSpace(c) == c \in {SP, TAB}

\* strings.TrimSpace(line) == ""
IsBlank(line) == \A i \in 1..Len(line) : IsSpace(line[i])

FieldsStep(st, c) ==
  IF IsSpace(c)
  THEN [cur |-> <<>>, acc |-> IF st.cur = <<>> THEN st.acc ELSE Append(st.acc, st.cur)]
  ELSE [cur |-> Append(st.cur, c), acc |-> st.acc]

\* The loop of strings.Fields over the characters of s: st is the loop's
\* state before s[lo].  The range lo..hi is halved rather than walked, which
\* bounds the evaluation depth by the logarithm of its length; the second half
\* is entered once the first has been evaluated to left.
RECURSIVE FieldsLoop(_, _, _, _)
RECURSIVE FieldsLoopRest(_, _, _, _)
FieldsLoop(s, lo, hi, st) ==
  IF lo > hi THEN st
  ELSE IF lo = hi THEN FieldsStep(st, s[lo])
  ELSE FieldsLoopRest(s, (lo + hi) \div 2 + 1, hi, FieldsLoop(s, lo, (lo + hi) \div 2, st))

FieldsLoopRest(s, lo, hi, left) ==
  IF left = left THEN FieldsLoop(s, lo, hi, left) ELSE left

\* the field being read when the string ends is a field too
FieldsEnd(st) == IF st.cur = <<>> THEN st.acc ELSE Append(st.acc, st.cur)

\* strings.Fields
Fields(s) == FieldsEnd(FieldsLoop(s, 1, Len(s), [cur |-> <<>>, acc |-> <<>>]))

RECURSIVE JoinFrom(_, _, _)
JoinFrom(parts, i, sep) ==
  IF i > Len(parts) THEN <<>>
  ELSE IF i = Len(parts) THEN parts[i]
  ELSE parts[i] \o sep \o JoinFrom(parts, i + 1, sep)

\* strings.Join(parts[from:], sep), from 1-based
Join(parts, from, sep) == JoinFrom(parts, from, sep)

TrimLeft(s, cut) ==
  LET keep == {k \in 1..Len(s) : s[k] \notin cut}
  IN IF keep = {} THEN <<>>
     ELSE SubSeq(s, CHOOSE k \in keep : \A m \in keep : k <= m, Len(s))

TrimRight(s, cut) ==
  LET keep == {k \in 1..Len(s) : s[k] \notin cut}
  IN IF keep = {} THEN <<>>
     ELSE SubSeq(s, 1, CHOOSE k \in keep : \A m \in keep : k >= m)

\* strings.Trim(s, cutset)
Trim(s, cut) == TrimRight(TrimLeft(s, cut), cut)

AllDigits(s) == s # <<>> /\ \A i \in 1..Len(s) : s[i] \in Digits

RECURSIVE DecVal(_)
DecVal(s) == IF s = <<>> THEN 0 ELSE 10 * DecVal(SubSeq(s, 1, Len(s) - 1)) + DigitVal(s[Len(s)])

\* Longest digit run ParseInt forms a value from in this model (a Go int64 holds
\* 18 digits; the inputs drawn below stay under IntDigits digits).
IntDigits == 9

\* strconv.ParseInt(s, 10, 64) and strconv.Atoi(s) on a 64-bit build: an
\* optional sign, then decimal digits only; out of range is an error.  The
\* digit count is capped before the value is formed so the range test itself
\* stays inside the model's integers.
ParseInt(s) ==
  LET signed == s # <<>> /\ s[1] \in {"+", "-"}
      body == IF signed THEN Tail(s) ELSE s
      neg == signed /\ s[1] = "-"
  IN IF ~AllDigits(body) \/ Len(body) > IntDigits
     THEN [ok |-> FALSE, val |-> 0]
     ELSE [ok |-> TRUE, val |-> IF neg THEN 0 - DecVal(body) ELSE DecVal(body)]

Atoi(s) == ParseInt(s)

(***************************************************************************)
(* net.ParseIP, as isValidIP uses it: the first '.' or ':' met decides     *)
(* between the IPv4 and the IPv6 grammar.                                  *)
(***************************************************************************)
\* the pieces of s between occurrences of c (empty pieces kept)
CutStep(st, c, ch) ==
  IF ch = c THEN [cur |-> <<>>, acc |-> Append(st.acc, st.cur)]
  ELSE [cur |-> Append(st.cur, ch), acc |-> st.acc]

\* The loop that cuts s at each c: st is the loop's
\* state before s[lo].  The range lo..hi is halved rather than walked, which
\* bounds the evaluation depth by the logarithm of its length; the second half
\* is entered once the first has been evaluated to left.
RECURSIVE CutLoop(_, _, _, _, _)
RECURSIVE CutLoopRest(_, _, _, _, _)
CutLoop(s, c, lo, hi, st) ==
  IF lo > hi THEN st
  ELSE IF lo = hi THEN CutStep(st, c, s[lo])
  ELSE CutLoopRest(s, c, (lo + hi) \div 2 + 1, hi, CutLoop(s, c, lo, (lo + hi) \div 2, st))

CutLoopRest(s, c, lo, hi, left) ==
  IF left = left THEN CutLoop(s, c, lo, hi, left) ELSE left

CutEnd(st) == Append(st.acc, st.cur)

SplitOn(s, c) == CutEnd(CutLoop(s, c, 1, Len(s), [cur |-> <<>>, acc |-> <<>>]))

HexDigits == Digits \cup {"a", "b", "c", "d", "e", "f", "A", "B", "C", "D", "E", "F"}

IsIPv4Field(f) ==
  /\ Len(f) \in 1..3
  /\ AllDigits(f)
  /\ (Len(f) > 1 => f[1] # "0")
  /\ DecVal(f) <= 255

IsIPv4Fields(f) == Len(f) = 4 /\ \A i \in 1..4 : IsIPv4Field(f[i])

IsIPv4(s) == IsIPv4Fields(SplitOn(s, "."))

IsHexGroup(g) == Len(g) \in 1..4 /\ \A i \in 1..Len(g) : g[i] \in HexDigits

\* p: the pieces of the text between its colons
IsIPv6Pieces(p) ==
  LET n == Len(p)
      empties == {i \in 1..n : p[i] = <<>>}
      \* one "::" shows as one empty inner piece, or as two empty pieces at
      \* the start or at the end, or as three when the text is "::" alone
      shapeOk == \/ empties = {}
                 \/ n >= 3 /\ empties = {1, 2}
                 \/ n >= 3 /\ empties = {n - 1, n}
                 \/ n = 3 /\ empties = {1, 2, 3}
                 \/ \E i \in 2..(n - 1) : empties = {i}
      v4tail == \E i \in 1..Len(p[n]) : p[n][i] = "."
      groups == (1..n) \ empties
      count == Cardinality(groups) + (IF v4tail THEN 1 ELSE 0)
  IN /\ n >= 2
     /\ shapeOk
     /\ \A i \in groups : IF i = n /\ v4tail THEN IsIPv4(p[i]) ELSE IsHexGroup(p[i])
     /\ IF empties # {} THEN count <= 7 ELSE count = 8

IsIPv6(s) == IsIPv6Pieces(SplitOn(s, ":"))

\* the first character of s that is in cs ("" if none)
FirstOf(s, cs) ==
  LET hit == {k \in 1..Len(s) : s[k] \in cs}
  IN IF hit = {} THEN "" ELSE s[CHOOSE k \in hit : \A m \in hit : k <= m]

ParseIPOk(s) ==
  LET c == FirstOf(s, {".", ":"}) IN
    IF c = "." THEN IsIPv4(s) ELSE IF c = ":" THEN IsIPv6(s) ELSE FALSE

\* variant: a check that lets every text through
isValidIPAny(ip) == TRUE

isValidIP(ip) == ParseIPOk(ip)

(***************************************************************************)
(* time.Parse for the layouts the timestamp parsers try.  A layout is the  *)
(* sequence of its elements: the reference-time chunks named in StdChunks  *)
(* and, for everything else, one literal character each.                   *)
(***************************************************************************)
StdChunks == {"2006", "01", "02", "2", "Jan", "15", "3", "04", "05", "-0700", ".000", "pm", "MST"}

UpperOf(c) ==
  CASE c = "a" -> "A" [] c = "b" -> "B" [] c = "c" -> "C" [] c = "d" -> "D"
    [] c = "e" -> "E" [] c = "f" -> "F" [] c = "g" -> "G" [] c = "j" -> "J"
    [] c = "l" -> "L" [] c = "m" -> "M" [] c = "n" -> "N" [] c = "o" -> "O"
    [] c = "p" -> "P" [] c = "r" -> "R" [] c = "s" -> "S" [] c = "t" -> "T"
    [] c = "u" -> "U" [] c = "v" -> "V" [] c = "y" -> "Y"
    [] OTHER -> c

shortMonthNames ==
  << <<"J", "A", "N">>, <<"F", "E", "B">>, <<"M", "A", "R">>, <<"A", "P", "R">>,
     <<"M", "A", "Y">>, <<"J", "U", "N">>, <<"J", "U", "L">>, <<"A", "U", "G">>,
     <<"S", "E", "P">>, <<"O", "C", "T">>, <<"N", "O", "V">>, <<"D", "E", "C">> >>

UpperLetters == {"A", "B", "C", "D", "E", "F", "G", "H", "I", "J", "K", "L", "M",
                 "N", "O", "P", "Q", "R", "S", "T", "U", "V", "W", "X", "Y", "Z"}

IsLeap(y) == y % 4 = 0 /\ (y % 100 # 0 \/ y % 400 = 0)

daysIn(m, y) ==
  IF m = 2 THEN (IF IsLeap(y) THEN 29 ELSE 28)
  ELSE IF m \in {4, 6, 9, 11} THEN 30 ELSE 31

Drop(s, k) == SubSeq(s, k + 1, Len(s))

isDigitAt(s, i) == i <= Len(s) /\ s[i] \in Digits

\* time.getnum: one or two digits (exactly two when fixed)
getnum(s, fixed) ==
  IF ~isDigitAt(s, 1) THEN [ok |-> FALSE, val |-> 0, rest |-> s]
  ELSE IF ~isDigitAt(s, 2)
       THEN (IF fixed THEN [ok |-> FALSE, val |-> 0, rest |-> s]
             ELSE [ok |-> TRUE, val |-> DigitVal(s[1]), rest |-> Drop(s, 1)])
  ELSE [ok |-> TRUE, val |-> 10 * DigitVal(s[1]) + DigitVal(s[2]), rest |-> Drop(s, 2)]

\* time.atoi on a two-character field: two digits, or a sign and one digit
timeAtoi2(a, b) ==
  IF a \in Digits /\ b \in Digits THEN [ok |-> TRUE, val |-> 10 * DigitVal(a) + DigitVal(b)]
  ELSE IF a = "+" /\ b \in Digits THEN [ok |-> TRUE, val |-> DigitVal(b)]
  ELSE IF a = "-" /\ b \in Digits THEN [ok |-> TRUE, val |-> 0 - DigitVal(b)]
  ELSE [ok |-> FALSE, val |-> 0]

\* first index >= i of s whose character is outside cs (Len(s) + 1 if none)
RunEnd(s, i, cs) ==
  LET stop == {k \in i..Len(s) : s[k] \notin cs}
  IN IF stop = {} THEN Len(s) + 1 ELSE CHOOSE k \in stop : \A m \in stop : k <= m

DigitRunEnd(s, i) == RunEnd(s, i, Digits)

lookupMonth(v) ==
  LET hits == {m \in 1..12 : Len(v) >= 3 /\ \A k \in 1..3 : UpperOf(v[k]) = shortMonthNames[m][k]}
  IN IF hits = {} THEN 0 ELSE CHOOSE m \in hits : TRUE

NoTime == [ok |-> FALSE, year |-> 0, month |-> 0, day |-> 0, hour |-> 0, min |-> 0,
           sec |-> 0, offset |-> 0, pm |-> "none"]

BadTime(st) == [st EXCEPT !.t = NoTime]

\* One element e of the layout against the front of the value st.v; st.t holds
\* the fields read so far (st.t.ok turns FALSE at the first mismatch); nxt is
\* the layout element that follows e ("" at the end).
elemStep(st, pair) ==
  LET e == pair[1]
      nxt == pair[2]
      v == st.v
      t == st.t
      num(fixed) == getnum(v, fixed)
  IN
  CASE ~t.ok -> st
    [] t.ok /\ e = "2006" ->
         IF Len(v) >= 4 /\ \A k \in 1..4 : v[k] \in Digits
         THEN [v |-> Drop(v, 4), t |-> [t EXCEPT !.year = DecVal(SubSeq(v, 1, 4))]]
         ELSE BadTime(st)
    [] t.ok /\ e = "01" ->
         IF num(TRUE).ok /\ num(TRUE).val \in 1..12
         THEN [v |-> num(TRUE).rest, t |-> [t EXCEPT !.month = num(TRUE).val]]
         ELSE BadTime(st)
    [] t.ok /\ e \in {"02", "2"} ->
         IF num(e = "02").ok
         THEN [v |-> num(e = "02").rest, t |-> [t EXCEPT !.day = num(e = "02").val]]
         ELSE BadTime(st)
    [] t.ok /\ e = "Jan" ->
         IF lookupMonth(v) # 0
         THEN [v |-> Drop(v, 3), t |-> [t EXCEPT !.month = lookupMonth(v)]]
         ELSE BadTime(st)
    [] t.ok /\ e = "15" ->
         IF num(FALSE).ok /\ num(FALSE).val < 24
         THEN [v |-> num(FALSE).rest, t |-> [t EXCEPT !.hour = num(FALSE).val]]
         ELSE BadTime(st)
    [] t.ok /\ e = "3" ->
         IF num(FALSE).ok /\ num(FALSE).val <= 12
         THEN [v |-> num(FALSE).rest, t |-> [t EXCEPT !.hour = num(FALSE).val]]
         ELSE BadTime(st)
    [] t.ok /\ e = "04" ->
         IF num(TRUE).ok /\ num(TRUE).val < 60
         THEN [v |-> num(TRUE).rest, t |-> [t EXCEPT !.min = num(TRUE).val]]
         ELSE BadTime(st)
    [] t.ok /\ e = "05" ->
         LET r == num(TRUE).rest
             \* a fractional second the layout does not name is consumed here
             frac == /\ Len(r) >= 2 /\ r[1] \in {".", ","} /\ isDigitAt(r, 2)
                     /\ nxt # ".000"
         IN IF num(TRUE).ok /\ num(TRUE).val < 60
            THEN [v |-> IF frac THEN Drop(r, DigitRunEnd(r, 2) - 1) ELSE r,
                  t |-> [t EXCEPT !.sec = num(TRUE).val]]
            ELSE BadTime(st)
    [] t.ok /\ e = ".000" ->
         IF Len(v) >= 4 /\ v[1] \in {".", ","} /\ \A k \in 2..4 : v[k] \in Digits
         THEN [v |-> Drop(v, 4), t |-> t]
         ELSE BadTime(st)
    [] t.ok /\ e = "-0700" ->
         IF /\ Len(v) >= 5 /\ v[1] \in {"+", "-"}
            /\ timeAtoi2(v[2], v[3]).ok /\ timeAtoi2(v[4], v[5]).ok
            /\ timeAtoi2(v[2], v[3]).val <= 24 /\ timeAtoi2(v[4], v[5]).val <= 60
         THEN LET off == timeAtoi2(v[2], v[3]).val * 60 + timeAtoi2(v[4], v[5]).val
              IN [v |-> Drop(v, 5),
                  t |-> [t EXCEPT !.offset = IF v[1] = "-" THEN 0 - off ELSE off]]
         ELSE BadTime(st)
    [] t.ok /\ e = "pm" ->
         IF Len(v) >= 2 /\ v[2] = "m" /\ v[1] \in {"a", "p"}
         THEN [v |-> Drop(v, 2), t |-> [t EXCEPT !.pm = v[1]]]
         ELSE BadTime(st)
    [] t.ok /\ e = "MST" ->
         IF Len(v) >= 3 /\ \A k \in 1..3 : v[k] \in UpperLetters
         THEN [v |-> Drop(v, 3), t |-> t]
         ELSE BadTime(st)
    [] t.ok /\ e = SP ->
         \* time.skip: a layout space takes every leading space of the value,
         \* and passes on an exhausted value
         IF v # <<>> /\ v[1] # SP THEN BadTime(st)
         ELSE [v |-> Drop(v, RunEnd(v, 1, {SP}) - 1), t |-> t]
    [] OTHER ->
         IF v # <<>> /\ v[1] = e THEN [v |-> Drop(v, 1), t |-> t] ELSE BadTime(st)

\* the layout, each element paired with the one after it
withNext(lay) == [i \in 1..Len(lay) |-> <<lay[i], IF i < Len(lay) THEN lay[i + 1] ELSE "">>]

\* The loop of time.Parse over the elements s of the layout: st is the loop's
\* state before s[lo].  The range lo..hi is halved rather than walked, which
\* bounds the evaluation depth by the logarithm of its length; the second half
\* is entered once the first has been evaluated to left.
RECURSIVE elemsLoop(_, _, _, _)
RECURSIVE elemsLoopRest(_, _, _, _)
elemsLoop(s, lo, hi, st) ==
  IF lo > hi THEN st
  ELSE IF lo = hi THEN elemStep(st, s[lo])
  ELSE elemsLoopRest(s, (lo + hi) \div 2 + 1, hi, elemsLoop(s, lo, (lo + hi) \div 2, st))

elemsLoopRest(s, lo, hi, left) ==
  IF left = left THEN elemsLoop(s, lo, hi, left) ELSE left

\* text left over after the last element is an error
elemsEnd(st) == IF st.t.ok /\ st.v = <<>> THEN st.t ELSE NoTime

parseElems(lay, value) ==
  elemsEnd(elemsLoop(withNext(lay), 1, Len(lay),
                     [v |-> value, t |-> [NoTime EXCEPT !.ok = TRUE, !.month = 1, !.day = 1]]))

\* the day-of-month range check and the 12-hour clock adjustment on the
\* fields t read
timeCheck(t) ==
  LET h == IF t.pm = "p" /\ t.hour < 12 THEN t.hour + 12
           ELSE IF t.pm = "a" /\ t.hour = 12 THEN 0 ELSE t.hour
  IN IF t.ok /\ t.day >= 1 /\ t.day <= daysIn(t.month, t.year)
     THEN [t EXCEPT !.hour = h, !.pm = "none"] ELSE NoTime

\* time.Parse(layout, value)
timeParse(lay, value) == timeCheck(parseElems(lay, value))

\* the result of the first layout of formats (from the i-th on) that parses
\* value, as the loops over formats return it
firstParsed(formats, value, hits) ==
  IF hits = {} THEN NoTime
  ELSE timeParse(formats[CHOOSE i \in hits : \A j \in hits : i <= j], value)

firstLayout(formats, i, value) ==
  firstParsed(formats, value, {k \in i..Len(formats) : timeParse(formats[k], value).ok})

ApacheFormats ==
  << <<"02", "/", "Jan", "/", "2006", ":", "15", ":", "04", ":", "05", " ", "-0700">>,
     <<"02", "/", "Jan", "/", "2006", ":", "15", ":", "04", ":", "05", " ", "+", "0", "7", "0", "0">>,
     <<"02", "/", "Jan", "/", "2006", ":", "15", ":", "04", ":", "05">> >>

parseApacheTimestamp(timestampStr) ==
  firstLayout(ApacheFormats, 1, Trim(timestampStr, {"[", "]"}))

parseNginxTimestamp(timestampStr) == parseApacheTimestamp(timestampStr)

GenericFormats ==
  << <<"2006", "-", "01", "-", "02", " ", "15", ":", "04", ":", "05">>,
     <<"2006", "-", "01", "-", "02", "T", "15", ":", "04", ":", "05", "Z">>,
     <<"2006", "-", "01", "-", "02", "T", "15", ":", "04", ":", "05", ".000", "Z">>,
     <<"Jan", " ", "2", ",", " ", "2006", " ", "a", "t", " ", "3", ":", "04", "pm", " ",
       "(", "MST", ")">>,
     <<"2006", "-", "01", "-", "02", " ", "15", ":", "04", ":", "05", ".000">> >>

parseGenericTimestamp(timestampStr) == firstLayout(GenericFormats, 1, timestampStr)

(***************************************************************************)
(* splitApacheLog: the quote-aware, escape-aware tokenizer.                *)
(***************************************************************************)
\* the body of the loop over the characters of the line
splitStep(st, char) ==
  IF st.escapeNext
  THEN [st EXCEPT !.current = Append(@, char), !.escapeNext = FALSE]
  ELSE IF char = BACKSLASH THEN [st EXCEPT !.escapeNext = TRUE]
  ELSE IF char = QUOTE THEN [st EXCEPT !.inQuotes = ~@]
  ELSE IF char = SP /\ ~st.inQuotes
       THEN (IF Len(st.current) > 0
             THEN [st EXCEPT !.parts = Append(@, st.current), !.current = <<>>]
             ELSE st)
  ELSE [st EXCEPT !.current = Append(@, char)]

\* The loop of splitApacheLog over the characters of s: st is the loop's
\* state before s[lo].  The range lo..hi is halved rather than walked, which
\* bounds the evaluation depth by the logarithm of its length; the second half
\* is entered once the first has been evaluated to left.
RECURSIVE splitLoop(_, _, _, _)
RECURSIVE splitLoopRest(_, _, _, _)
splitLoop(s, lo, hi, st) ==
  IF lo > hi THEN st
  ELSE IF lo = hi THEN splitStep(st, s[lo])
  ELSE splitLoopRest(s, (lo + hi) \div 2 + 1, hi, splitLoop(s, lo, (lo + hi) \div 2, st))

splitLoopRest(s, lo, hi, left) ==
  IF left = left THEN splitLoop(s, lo, hi, left) ELSE left

\* variant: a tokenizer that splits at white space alone
splitOnSpace(line) == Fields(line)

\* after the loop: the token being read is appended if it is not empty
splitEnd(st) == IF Len(st.current) > 0 THEN Append(st.parts, st.current) ELSE st.parts

splitApacheLog(line) ==
  splitEnd(splitLoop(line, 1, Len(line),
                     [parts |-> <<>>, current |-> <<>>, inQuotes |-> FALSE,
                      escapeNext |-> FALSE]))

splitNginxLog(line) == splitApacheLog(line)

(***************************************************************************)
(* strconv.ParseFloat and strconv.ParseBool, as the parsers use them.      *)
(* A float value is kept in thousandths (the inputs drawn carry at most    *)
(* three fractional digits); form tells a plain decimal from the exponent, *)
(* infinity and NaN spellings ParseFloat also accepts.                     *)
(***************************************************************************)
LowerOf(c) ==
  CASE c = "A" -> "a" [] c = "E" -> "e" [] c = "F" -> "f" [] c = "I" -> "i"
    [] c = "N" -> "n" [] c = "T" -> "t" [] c = "Y" -> "y"
    [] OTHER -> c

LowerSeq(s) == [i \in 1..Len(s) |-> LowerOf(s[i])]

NoFloat == [ok |-> FALSE, milli |-> 0, form |-> "none"]

Pad3(f) == IF Len(f) >= 3 THEN SubSeq(f, 1, 3)
           ELSE IF Len(f) = 2 THEN f \o <<"0">>
           ELSE IF Len(f) = 1 THEN f \o <<"0", "0">> ELSE <<"0", "0", "0">>

\* s: the text; low: s without its sign, in lower case; mant: low split at
\* "e"; dot: the mantissa split at "."
floatOf(s, low, mant, dot) ==
  LET signed == s # <<>> /\ s[1] \in {"+", "-"}
      neg == signed /\ s[1] = "-"
      ip == dot[1]
      fp == IF Len(dot) = 2 THEN dot[2] ELSE <<>>
      digitsOrEmpty(x) == \A i \in 1..Len(x) : x[i] \in Digits
      mantOk == /\ Len(dot) \in 1..2
                /\ digitsOrEmpty(ip) /\ digitsOrEmpty(fp)
                /\ Len(ip) + Len(fp) >= 1
                /\ Len(ip) <= IntDigits - 3
      expOk == Len(mant) = 2 /\ ParseInt(mant[2]).ok
      val == DecVal(ip) * 1000 + DecVal(Pad3(fp))
  IN IF low \in {<<"i", "n", "f">>, <<"i", "n", "f", "i", "n", "i", "t", "y">>}
     THEN [ok |-> TRUE, milli |-> 0, form |-> IF neg THEN "-inf" ELSE "+inf"]
     ELSE IF low = <<"n", "a", "n">> /\ ~signed
     THEN [ok |-> TRUE, milli |-> 0, form |-> "nan"]
     ELSE IF Len(mant) = 1 /\ mantOk
     THEN [ok |-> TRUE, milli |-> IF neg THEN 0 - val ELSE val, form |-> "decimal"]
     ELSE IF mantOk /\ expOk
     THEN [ok |-> TRUE, milli |-> 0, form |-> "exponent"]
     ELSE NoFloat

floatOfMant(s, low, mant) == floatOf(s, low, mant, SplitOn(mant[1], "."))

floatOfLower(s, low) == floatOfMant(s, low, SplitOn(low, "e"))

ParseFloat(s) ==
  floatOfLower(s, LowerSeq(IF s # <<>> /\ s[1] \in {"+", "-"} THEN Tail(s) ELSE s))

ParseBool(s) ==
  IF s \in {<<"1">>, <<"t">>, <<"T">>, <<"T", "R", "U", "E">>, <<"t", "r", "u", "e">>,
            <<"T", "r", "u", "e">>}
  THEN [ok |-> TRUE, val |-> TRUE]
  ELSE IF s \in {<<"0">>, <<"f">>, <<"F">>, <<"F", "A", "L", "S", "E">>,
                 <<"f", "a", "l", "s", "e">>, <<"F", "a", "l", "s", "e">>}
  THEN [ok |-> TRUE, val |-> FALSE]
  ELSE [ok |-> FALSE, val |-> FALSE]

(***************************************************************************)
(* extractKeyValuePairs: every leftmost, non-overlapping match of          *)
(* (\w+)=([^\s]+) in the message, each value coerced int, float, bool,     *)
(* string; a later pair with the same key overwrites the earlier one.      *)
(***************************************************************************)
WordChars == Digits \cup UpperLetters \cup {"_"} \cup
  {"a", "b", "c", "d", "e", "f", "g", "h", "i", "j", "k", "l", "m",
   "n", "o", "p", "q", "r", "s", "t", "u", "v", "w", "x", "y", "z"}

\* the first conversion that succeeds: intVal, floatVal, boolVal are what
\* strconv.Atoi, ParseFloat and ParseBool return for value
\* variant: the boolean conversion is tried first
coercedBoolFirst(value, intVal, floatVal, boolVal) ==
  IF boolVal.ok THEN [type |-> "bool", val |-> boolVal.val]
  ELSE IF intVal.ok THEN [type |-> "int", val |-> intVal.val]
  ELSE IF floatVal.ok THEN [type |-> "float", val |-> floatVal]
  ELSE [type |-> "string", val |-> value]

coerced(value, intVal, floatVal, boolVal) ==
  IF intVal.ok THEN [type |-> "int", val |-> intVal.val]
  ELSE IF floatVal.ok THEN [type |-> "float", val |-> floatVal]
  ELSE IF boolVal.ok THEN [type |-> "bool", val |-> boolVal.val]
  ELSE [type |-> "string", val |-> value]

coerce(value) == coerced(value, Atoi(value), ParseFloat(value), ParseBool(value))

EmptyMetadata == [x \in {} |-> 0]

\* One character of the message against (\w+)=([^\s]+): key is the word run
\* read so far, inValue says that its "=" was passed and val is being read.
\* A match ends at the first white space (or at the end of the message).
kvFlush(st) ==
  IF st.inValue /\ st.val # <<>>
  THEN [key |-> <<>>, val |-> <<>>, inValue |-> FALSE,
        metadata |-> (st.key :> coerce(st.val)) @@ st.metadata]
  ELSE [st EXCEPT !.key = <<>>, !.val = <<>>, !.inValue = FALSE]

kvStep(st, c) ==
  CASE st.inValue /\ ~IsSpace(c) -> [st EXCEPT !.val = Append(@, c)]
    [] st.inValue /\ IsSpace(c) -> kvFlush(st)
    [] ~st.inValue /\ c \in WordChars -> [st EXCEPT !.key = Append(@, c)]
    [] ~st.inValue /\ c = "=" /\ st.key # <<>> -> [st EXCEPT !.inValue = TRUE]
    [] OTHER -> [st EXCEPT !.key = <<>>]

\* The loop of the match over the characters of s: st is the loop's
\* state before s[lo].  The range lo..hi is halved rather than walked, which
\* bounds the evaluation depth by the logarithm of its length; the second half
\* is entered once the first has been evaluated to left.
RECURSIVE kvLoop(_, _, _, _)
RECURSIVE kvLoopRest(_, _, _, _)
kvLoop(s, lo, hi, st) ==
  IF lo > hi THEN st
  ELSE IF lo = hi THEN kvStep(st, s[lo])
  ELSE kvLoopRest(s, (lo + hi) \div 2 + 1, hi, kvLoop(s, lo, (lo + hi) \div 2, st))

kvLoopRest(s, lo, hi, left) ==
  IF left = left THEN kvLoop(s, lo, hi, left) ELSE left

extractKeyValuePairs(message) ==
  kvFlush(kvLoop(message, 1, Len(message),
                    [key |-> <<>>, val |-> <<>>, inValue |-> FALSE,
                     metadata |-> EmptyMetadata])).metadata

(***************************************************************************)
(* The three line parsers and parseLogLine.  A result is an entry, an      *)
(* error, or the run-time panic Go raises for an index out of range.       *)
(***************************************************************************)
NowTime == [NoTime EXCEPT !.ok = TRUE, !.pm = "now"]

NoEntry == [Timestamp |-> NoTime, LogType |-> "", SourceIP |-> <<>>, Method |-> <<>>,
            Path |-> <<>>, StatusCode |-> 0, ResponseSize |-> 0, UserAgent |-> <<>>,
            Referer |-> <<>>, ProcessingTime |-> 0, RawLog |-> <<>>,
            Metadata |-> EmptyMetadata]

Entry(e) == [kind |-> "entry", msg |-> "", entry |-> e]
Error(m) == [kind |-> "error", msg |-> m, entry |-> NoEntry]
Panic(m) == [kind |-> "panic", msg |-> m, entry |-> NoEntry]

parseApacheLog(line) ==
  LET parts == splitApacheLog(line) IN
  IF Len(parts) < 9 THEN Error("invalid Apache log format")
  ELSE IF ~isValidIP(parts[1]) THEN Error("invalid IP address")
  ELSE LET timestamp == parseApacheTimestamp(parts[4] \o <<SP>> \o parts[5])
           requestParts == Fields(parts[6])
           statusCode == Atoi(parts[7])
           responseSize == ParseInt(parts[8])
       IN IF ~timestamp.ok THEN Error("invalid timestamp")
          ELSE IF Len(requestParts) < 2 THEN Error("invalid request format")
          ELSE IF ~statusCode.ok THEN Error("invalid status code")
          \* parts[9] of the source is read next, whatever len(parts) >= 9 is
          ELSE IF Len(parts) < 10 THEN Panic("index out of range [9]")
          ELSE
               Entry([NoEntry EXCEPT
                    !.Timestamp = timestamp,
                    !.LogType = "apache",
                    !.SourceIP = parts[1],
                    !.Method = requestParts[1],
                    !.Path = requestParts[2],
                    !.StatusCode = statusCode.val,
                    !.ResponseSize = IF responseSize.ok THEN responseSize.val ELSE 0,
                    !.UserAgent = Trim(parts[10], {QUOTE}),
                    !.Referer = Trim(parts[9], {QUOTE}),
                    !.RawLog = line])

\* variant: the Nginx parser as a copy of the Apache one, tag included
parseNginxLogAsApache(line) == parseApacheLog(line)

parseNginxLog(line) ==
  LET parts == splitNginxLog(line) IN
  IF Len(parts) < 9 THEN Error("invalid Nginx log format")
  ELSE IF ~isValidIP(parts[1]) THEN Error("invalid IP address")
  ELSE LET timestamp == parseNginxTimestamp(parts[4] \o <<SP>> \o parts[5])
           requestParts == Fields(parts[6])
           statusCode == Atoi(parts[7])
           responseSize == ParseInt(parts[8])
       IN IF ~timestamp.ok THEN Error("invalid timestamp")
          ELSE IF Len(requestParts) < 2 THEN Error("invalid request format")
          ELSE IF ~statusCode.ok THEN Error("invalid status code")
          \* parts[9] of the source is read next, whatever len(parts) >= 9 is
          ELSE IF Len(parts) < 10 THEN Panic("index out of range [9]")
          ELSE
               LET processingTime == IF Len(parts) > 10 THEN ParseFloat(parts[11]).milli ELSE 0
               IN Entry([NoEntry EXCEPT
                    !.Timestamp = timestamp,
                    !.LogType = "nginx",
                    !.SourceIP = parts[1],
                    !.Method = requestParts[1],
                    !.Path = requestParts[2],
                    !.StatusCode = statusCode.val,
                    !.ResponseSize = IF responseSize.ok THEN responseSize.val ELSE 0,
                    !.UserAgent = Trim(parts[10], {QUOTE}),
                    !.Referer = Trim(parts[9], {QUOTE}),
                    !.ProcessingTime = processingTime,
                    !.RawLog = line])

parseGenericLog(line) ==
  LET parts == Fields(line) IN
  IF Len(parts) < 3 THEN Error("invalid generic log format")
  ELSE LET parsed == parseGenericTimestamp(parts[1] \o <<SP>> \o parts[2])
           timestamp == IF parsed.ok THEN parsed ELSE NowTime
           message == Join(parts, 4, <<SP>>)
       IN Entry([NoEntry EXCEPT
            !.Timestamp = timestamp,
            !.LogType = "generic",
            !.Path = message,
            !.RawLog = line,
            !.Metadata = extractKeyValuePairs(message)])

\* variant: a tag that is none of the three is parsed as generic
parseLogLineLenient(line, logType) ==
  CASE logType = "apache" -> parseApacheLog(line)
    [] logType = "nginx" -> parseNginxLog(line)
    [] OTHER -> parseGenericLog(line)

parseLogLine(line, logType) ==
  CASE logType = "apache" -> parseApacheLog(line)
    [] logType = "nginx" -> parseNginxLog(line)
    [] logType = "generic" -> parseGenericLog(line)
    [] OTHER -> Error("unsupported log type: " \o logType)

(***************************************************************************)
(* The lines a stream can hold in the pipeline model.                      *)
(***************************************************************************)
\* 1.1.1.1 - - [10/Oct/2023:13:55:36 +0000] "GET / H" 200 5 "-" "M"   (10 tokens)
LineFull ==
  <<"1", ".", "1", ".", "1", ".", "1", " ", "-", " ", "-", " ", "[", "1",
    "0", "/", "O", "c", "t", "/", "2", "0", "2", "3", ":", "1", "3", ":",
    "5", "5", ":", "3", "6", " ", "+", "0", "0", "0", "0", "]", " ", "\"",
    "G", "E", "T", " ", "/", " ", "H", "\"", " ", "2", "0", "0", " ", "5",
    " ", "\"", "-", "\"", " ", "\"", "M", "\"">>

\* the same line without its user agent   (9 tokens, every checked field valid)
LineNine ==
  <<"1", ".", "1", ".", "1", ".", "1", " ", "-", " ", "-", " ", "[", "1",
    "0", "/", "O", "c", "t", "/", "2", "0", "2", "3", ":", "1", "3", ":",
    "5", "5", ":", "3", "6", " ", "+", "0", "0", "0", "0", "]", " ", "\"",
    "G", "E", "T", " ", "/", " ", "H", "\"", " ", "2", "0", "0", " ", "5",
    " ", "\"", "-", "\"">>

\* a line of two tokens after a leading space
LineShort ==
  <<" ", "b", "a", "d", " ", "x">>

\* a whitespace-only line: a space and a tab
LineBlank ==
  <<" ", "\t">>

\* The stream's lines are named; a state holds the name, and the text, and what
\* parseLogLine makes of it, are looked up.
LineIds == {"full", "nine", "short", "blank"}

LineText(id) ==
  CASE id = "full" -> LineFull
    [] id = "nine" -> LineNine
    [] id = "short" -> LineShort
    [] id = "blank" -> LineBlank

LogTypes == {"apache", "nginx", "generic", "syslog"}

(***************************************************************************)
(* The Reporter: prepareSummary and what it calls.  Paths and source IPs   *)
(* are named by numbers.  A float64 is kept as the exact fraction num/den  *)
(* of the operations that made it; its rounding is not modelled.           *)
(***************************************************************************)
FloatZero == [num |-> 0, den |-> 1]

\* float64(a) / float64(b), and x * k
FloatDiv(a, b) == [num |-> a, den |-> b]
FloatTimes(x, k) == [num |-> x.num * k, den |-> x.den]

\* x == y
FloatEq(x, y) == x.num * y.den = y.num * x.den

\* the n of r.getTopItems(pathCounts, 10) and r.getTopIPs(ipCounts, 10)
TopN == 10

NoCounts == [k \in {} |-> 0]

\* counts[key]++
Incr(counts, key) ==
  IF key \in DOMAIN counts THEN [counts EXCEPT ![key] = @ + 1]
  ELSE (key :> 1) @@ counts

\* for _, entry := range data.LogEntries { counts[key of entry]++ }, from
\* entry i on; keys[i] is the key of entry i
RECURSIVE countLoop(_, _, _)
countLoop(keys, i, counts) ==
  IF i > Len(keys) THEN counts
  ELSE countLoop(keys, i + 1, Incr(counts, keys[i]))

ipCounts(entries) == countLoop([i \in 1..Len(entries) |-> entries[i].SourceIP], 1, NoCounts)
pathCounts(entries) == countLoop([i \in 1..Len(entries) |-> entries[i].Path], 1, NoCounts)
statusCounts(entries) ==
  countLoop([i \in 1..Len(entries) |-> entries[i].StatusCode], 1, NoCounts)
hourlyCounts(entries) ==
  countLoop([i \in 1..Len(entries) |-> entries[i].Timestamp.hour], 1, NoCounts)

\* variant: every entry is counted, whatever its ProcessingTime
timeStepAll(acc, entry) ==
  [totalTime |-> acc.totalTime + entry.ProcessingTime, timeCount |-> acc.timeCount + 1]

\* if entry.ProcessingTime > 0 { totalTime += entry.ProcessingTime; timeCount++ }
timeStep(acc, entry) ==
  IF entry.ProcessingTime > 0
  THEN [totalTime |-> acc.totalTime + entry.ProcessingTime, timeCount |-> acc.timeCount + 1]
  ELSE acc

RECURSIVE timeLoop(_, _, _)
timeLoop(entries, i, acc) ==
  IF i > Len(entries) THEN acc
  ELSE timeLoop(entries, i + 1, timeStep(acc, entries[i]))

\* variant: a status code of 400 is no error
errorStepAbove(errorCount, entry) ==
  IF entry.StatusCode > 400 THEN errorCount + 1 ELSE errorCount

\* if entry.StatusCode >= 400 { errorCount++ }
errorStep(errorCount, entry) ==
  IF entry.StatusCode >= 400 THEN errorCount + 1 ELSE errorCount

RECURSIVE errorLoop(_, _, _)
errorLoop(entries, i, errorCount) ==
  IF i > Len(entries) THEN errorCount
  ELSE errorLoop(entries, i + 1, errorStep(errorCount, entries[i]))

\* for item, count := range counts: the keys in the order the range gives them.
\* Go leaves that order open and starts each range at a place drawn at random;
\* the orders drawn here are the ascending one and its rotations.
KeyAt(keys, i) == CHOOSE k \in keys : Cardinality({j \in keys : j < k}) = i - 1

MapOrders(counts) ==
  LET n == Cardinality(DOMAIN counts)
  IN IF n = 0 THEN {<<>>}
     ELSE {[i \in 1..n |-> KeyAt(DOMAIN counts, ((i + r - 1) % n) + 1)] : r \in 0..(n - 1)}

\* items = append(items, PathSummary{Path: item, Count: count})
itemsOf(order, counts) ==
  [i \in 1..Len(order) |-> [Key |-> order[i], Count |-> counts[order[i]], Percentage |-> FloatZero]]

\* sort.Slice(items, less) with less(i, j) = items[i].Count > items[j].Count,
\* on at most 12 items, where Go sorts by insertion: the item moves left past
\* every neighbour with a smaller Count and stops at the first that has none
insertItem(sorted, item) ==
  LET stops == {j \in 1..Len(sorted) : ~(item.Count > sorted[j].Count)}
      at == IF stops = {} THEN 0 ELSE CHOOSE j \in stops : \A k \in stops : k <= j
  IN SubSeq(sorted, 1, at) \o <<item>> \o SubSeq(sorted, at + 1, Len(sorted))

RECURSIVE sortLoop(_, _, _)
sortLoop(items, i, sorted) ==
  IF i > Len(items) THEN sorted
  ELSE sortLoop(items, i + 1, insertItem(sorted, items[i]))

sortSlice(items) == sortLoop(items, 1, <<>>)

\* if len(items) > n { items = items[:n] }
limitTo(items, n) == IF Len(items) > n THEN SubSeq(items, 1, n) ELSE items

\* for _, item := range items { total += item.Count }
RECURSIVE totalLoop(_, _, _)
totalLoop(items, i, total) ==
  IF i > Len(items) THEN total
  ELSE totalLoop(items, i + 1, total + items[i].Count)

\* if total > 0 { items[i].Percentage = float64(items[i].Count) / float64(total) * 100 }
withPercentages(items, total) ==
  [i \in 1..Len(items) |->
     IF total > 0
     THEN [items[i] EXCEPT !.Percentage = FloatTimes(FloatDiv(items[i].Count, total), 100)]
     ELSE items[i]]

\* variant: the percentages are taken of the count of all items
topOfAll(sorted, n) == withPercentages(limitTo(sorted, n), totalLoop(sorted, 1, 0))

topOf(sorted, n) == withPercentages(limitTo(sorted, n), totalLoop(limitTo(sorted, n), 1, 0))

\* order: the order in which the range over counts gives the keys
getTopItems(order, counts, n) == topOf(sortSlice(itemsOf(order, counts)), n)

getTopIPs(order, counts, n) == topOf(sortSlice(itemsOf(order, counts)), n)

\* variant: the hours without an entry are left out
trafficOfPresent(counts) ==
  [i \in 1..Cardinality(DOMAIN counts) |->
     [Hour |-> KeyAt(DOMAIN counts, i), Count |-> counts[KeyAt(DOMAIN counts, i)]]]

\* for hour := 0; hour < 24; hour++ { traffic = append(traffic, ...) }
trafficOf(counts) ==
  [i \in 1..24 |->
     [Hour |-> i - 1, Count |-> IF (i - 1) \in DOMAIN counts THEN counts[i - 1] ELSE 0]]

getHourlyTraffic(entries) == trafficOf(hourlyCounts(entries))

\* the zero value of ReportSummary
ZeroSummary ==
  [TotalRequests |-> 0, UniqueIPs |-> 0, AvgResponseTime |-> FloatZero,
   ErrorRate |-> FloatZero, TopPaths |-> <<>>, TopIPs |-> <<>>,
   StatusCodeBreakdown |-> NoCounts, HourlyTraffic |-> <<>>]

\* reportData := &reporting.ReportData{...}: no entries yet, Summary not set;
\* prepared tells that prepareSummary has run on it
NewReportData == [LogEntries |-> <<>>, Summary |-> ZeroSummary, prepared |-> FALSE]

summaryOf(summary, entries, times, errorCount, pathOrder, ipOrder) ==
  [summary EXCEPT
     !.TotalRequests = Len(entries),
     !.UniqueIPs = Cardinality(DOMAIN ipCounts(entries)),
     !.AvgResponseTime =
        IF times.timeCount > 0 THEN FloatDiv(times.totalTime, times.timeCount) ELSE @,
     !.ErrorRate =
        IF Len(entries) > 0 THEN FloatTimes(FloatDiv(errorCount, Len(entries)), 100) ELSE @,
     !.TopPaths = getTopItems(pathOrder, pathCounts(entries), TopN),
     !.TopIPs = getTopIPs(ipOrder, ipCounts(entries), TopN),
     !.StatusCodeBreakdown = statusCounts(entries),
     !.HourlyTraffic = getHourlyTraffic(entries)]

\* prepareSummary(data): the Summary it leaves in data
prepareSummary(d, pathOrder, ipOrder) ==
  summaryOf(d.Summary, d.LogEntries,
            timeLoop(d.LogEntries, 1, [totalTime |-> 0, timeCount |-> 0]),
            errorLoop(d.LogEntries, 1, 0), pathOrder, ipOrder)

(***************************************************************************)
(* The pipeline: Processor, ProcessFile and its workers, ProcessingStats.  *)
(***************************************************************************)
\* goroutines that call ProcessFile on the one Processor, and those that
\* call GetStats
Callers == {"c1", "c2"}
Readers == {"r1"}

\* longest stream read by the ProcessFile call that begins first, and by the
\* one that begins second
MaxLines == 2
MaxLinesSecond == 1
\* largest workerCount given to NewProcessor, and the workerCount of the
\* Processor that two ProcessFile calls share
MaxWorkers == 2
SharedWorkers == 1
\* capacities of processedLogs and errors (1000 and 100 in NewProcessor),
\* scaled down so that a full queue is reached within MaxLines lines
LogsCap == 1
ErrorsCap == 1

maxLines(c) == IF c = "c1" THEN MaxLines ELSE MaxLinesSecond

Slots == 1..MaxLines
WorkerIds == {w \in Callers \X Slots : w[2] <= maxLines(w[1])}

\* the stream positions of one call
workersOf(c) == {w \in WorkerIds : w[1] = c}

VARIABLES
  workerCount,    \* cap(p.workerPool), the argument of NewProcessor
  callers,        \* per ProcessFile call: its position, logType, line, lineCount, wg, return value
  workers,        \* per stream position: the goroutine started for the line read there
  workerPool,     \* number of slots held in p.workerPool
  processedLogs,  \* p.processedLogs, oldest first
  errors,         \* p.errors, oldest first
  stats,          \* p.stats: the five counters
  mu,             \* p.stats.mu: the writer holding it and the readers holding it
  readers,        \* per GetStats caller: its position
  crashed,        \* the process has died of a panic
  closed,         \* Close has closed the two queues and the pool
  pIn,            \* parse check: the tokens of the line under construction
  pOut,           \* parse check: the line, the format and what parse returned
  kvIn,           \* key-value check: the tokens of the message under construction
  kvOut,          \* key-value check: the message and what extractKeyValuePairs returned
  data            \* the ReportData handed to the Reporter

vars == <<workerCount, callers, workers, workerPool, processedLogs, errors, stats, mu,
          readers, crashed, closed, pIn, pOut, kvIn, kvOut, data>>

pipeVars == <<workerCount, callers, workers, workerPool, processedLogs, errors, stats,
              mu, readers, crashed, closed>>
lineVars == <<pIn, pOut>>
pairVars == <<kvIn, kvOut>>
parseVars == <<pIn, pOut, kvIn, kvOut, data>>
inputVars == <<pIn, pOut, kvIn, kvOut>>

NoResult == [kind |-> "none", msg |-> "", entry |-> NoEntry]

\* a stream position no goroutine was started for (yet).  line, lineNum and
\* logType are the goroutine's arguments and captured variables, tmp is the
\* counter value it has loaded; kind is what parseLogLine returned to it, and
\* entries and errs count its sends on the two queues.
NoWorker == [pc |-> "none", line |-> "", lineNum |-> 0, logType |-> "",
             kind |-> "none", tmp |-> 0, entries |-> 0, errs |-> 0]

\* parseLogLine on every line a stream can hold, under every format tag
parsed == [id \in LineIds |-> [t \in LogTypes |-> parseLogLine(LineText(id), t)]]

\* what the goroutine w holds after its parseLogLine call: (entry, err)
resultOf(w) == parsed[workers[w].line][workers[w].logType]

ZeroStats == [TotalProcessed |-> 0, ApacheProcessed |-> 0, NginxProcessed |-> 0,
              GenericProcessed |-> 0, Errors |-> 0]

NoPairs == [message |-> <<>>, metadata |-> EmptyMetadata, done |-> FALSE]

NoParse == [line |-> <<>>, logType |-> "", result |-> NoResult, again |-> NoResult]

NoCall == [pc |-> "idle", logType |-> "", pos |-> 0, line |-> "", lineCount |-> 0,
           wg |-> 0, ret |-> "", readErr |-> FALSE]

\* NewProcessor(n): empty queues, an empty pool of n slots, zeroed counters
NewProcessor(n) ==
  /\ workerCount = n
  /\ callers = [c \in Callers |-> NoCall]
  /\ workers = [w \in WorkerIds |-> NoWorker]
  /\ workerPool = 0
  /\ processedLogs = <<>>
  /\ errors = <<>>
  /\ stats = ZeroStats
  /\ mu = [writer |-> <<>>, readers |-> {}]
  /\ readers = [r \in Readers |-> "idle"]
  /\ crashed = FALSE
  /\ closed = FALSE

\* no line and no message has been put together
NoInputs ==
  /\ pIn = <<>> /\ pOut = NoParse
  /\ kvIn = <<>> /\ kvOut = NoPairs
  /\ data = NewReportData

Init == (\E n \in 1..MaxWorkers : NewProcessor(n)) /\ NoInputs

InitCalls == NewProcessor(SharedWorkers) /\ NoInputs

\* ---- ProcessFile, the dispatching goroutine ----

\* a call of ProcessFile(reader, logType) begins
StartCall(c, t) ==
  /\ ~crashed
  /\ callers[c].pc = "idle"
  /\ c = "c2" => callers["c1"].pc # "idle"   \* the call that begins first is named c1
  /\ callers' = [callers EXCEPT ![c].pc = "scan", ![c].logType = t]
  /\ UNCHANGED <<workerCount, closed, workers, workerPool, processedLogs, errors, stats, mu,
                 readers, crashed>>
  /\ UNCHANGED parseVars

\* scanner.Scan() returns line: a blank line is skipped, any other is counted
\* (lineCount++, wg.Add(1)) and waits for a pool slot
ScanLine(c, line) ==
  LET pos == callers[c].pos + 1 IN
  /\ ~crashed
  /\ callers[c].pc = "scan"
  /\ callers[c].pos < maxLines(c)
  /\ IF IsBlank(LineText(line))
       THEN /\ callers' = [callers EXCEPT ![c].pos = pos]
            /\ workers' = [workers EXCEPT ![<<c, pos>>].pc = "skipped"]
       ELSE /\ callers' = [callers EXCEPT ![c].pc = "acquire",
                                          ![c].pos = pos,
                                          ![c].line = line,
                                          ![c].lineCount = @ + 1,
                                          ![c].wg = @ + 1]
            /\ UNCHANGED workers
  /\ UNCHANGED <<workerCount, closed, workerPool, processedLogs, errors, stats, mu,
                 readers, crashed>>
  /\ UNCHANGED parseVars

\* variant: a send on workerPool that never blocks
poolHasRoomAlways == TRUE

\* p.workerPool <- struct{}{} blocks while the pool holds workerCount slots
poolHasRoom == workerPool < workerCount

\* the slot is acquired and the goroutine for the line is started
Acquire(c) ==
  /\ ~crashed
  /\ callers[c].pc = "acquire"
  /\ poolHasRoom
  /\ workerPool' = workerPool + 1
  /\ workers' = [workers EXCEPT ![<<c, callers[c].pos>>] =
                   [NoWorker EXCEPT !.pc = "parse", !.line = callers[c].line,
                                    !.lineNum = callers[c].lineCount,
                                    !.logType = callers[c].logType]]
  /\ callers' = [callers EXCEPT ![c].pc = "scan", ![c].line = ""]
  /\ UNCHANGED <<workerCount, closed, processedLogs, errors, stats, mu, readers, crashed>>
  /\ UNCHANGED parseVars

\* scanner.Scan() returns false at the end of the stream; scanner.Err() is nil
ScanEOF(c) ==
  /\ ~crashed
  /\ callers[c].pc = "scan"
  /\ callers' = [callers EXCEPT ![c].pc = "wait"]
  /\ UNCHANGED <<workerCount, closed, workers, workerPool, processedLogs, errors, stats, mu,
                 readers, crashed>>
  /\ UNCHANGED parseVars

\* scanner.Scan() returns false on a read failure; ProcessFile returns the
\* wrapped scanner.Err() at once
ScanFail(c) ==
  /\ ~crashed
  /\ callers[c].pc = "scan"
  /\ callers' = [callers EXCEPT ![c].pc = "returned", ![c].readErr = TRUE,
                                ![c].ret = "error reading file"]
  /\ UNCHANGED <<workerCount, closed, workers, workerPool, processedLogs, errors, stats, mu,
                 readers, crashed>>
  /\ UNCHANGED parseVars

\* variant: wg.Wait() that does not wait
wgIsZeroNoWait(c) == TRUE

\* wg.Wait() returns once every wg.Add(1) has met its wg.Done()
wgIsZero(c) == callers[c].wg = 0

\* variant: ProcessFile that returns an error when a line has failed
waitResultLineErrors(c) ==
  IF \E w \in workersOf(c) : workers[w].kind = "error" THEN "parse errors" ELSE "nil"

\* what ProcessFile returns after wg.Wait()
waitResult(c) == "nil"

Wait(c) ==
  /\ ~crashed
  /\ callers[c].pc = "wait"
  /\ wgIsZero(c)
  /\ callers' = [callers EXCEPT ![c].pc = "returned", ![c].ret = waitResult(c)]
  /\ UNCHANGED <<workerCount, closed, workers, workerPool, processedLogs, errors, stats, mu,
                 readers, crashed>>
  /\ UNCHANGED parseVars

\* ---- the goroutine ProcessFile starts for one line ----

\* entry, err := p.parseLogLine(line, logType); a panic ends the process
WorkerParse(w) ==
  LET r == resultOf(w) IN
  /\ ~crashed
  /\ workers[w].pc = "parse"
  /\ workers' = [workers EXCEPT ![w].kind = r.kind,
                   ![w].pc = CASE r.kind = "error" -> "sendErr"
                               [] r.kind = "entry" -> "sendEntry"
                               [] OTHER -> "panicked"]
  /\ crashed' = (r.kind = "panic")
  /\ UNCHANGED <<workerCount, closed, callers, workerPool, processedLogs, errors, stats, mu,
                 readers>>
  /\ UNCHANGED parseVars

entryOf(item) == parsed[item.entry[1]][item.entry[2]].entry

\* a send on a buffered channel blocks while the buffer is full
chanHasRoom(q, cap) == Len(q) < cap

\* variant: the error path that returns before incrementErrors
SendErrUncounted(w) ==
  /\ ~crashed
  /\ workers[w].pc = "sendErr"
  /\ ~closed
  /\ Len(errors) < ErrorsCap
  /\ errors' = Append(errors, [lineNum |-> workers[w].lineNum,
                               cause |-> parsed[workers[w].line][workers[w].logType].msg,
                               from |-> w])
  /\ workers' = [workers EXCEPT ![w].pc = "release", ![w].errs = @ + 1]
  /\ UNCHANGED <<workerCount, closed, callers, workerPool, processedLogs, stats, mu,
                 readers, crashed>>
  /\ UNCHANGED parseVars

\* p.errors <- fmt.Errorf("line %d: %w", lineNum, err)
SendErr(w) ==
  /\ ~crashed
  /\ workers[w].pc = "sendErr"
  /\ ~closed
  /\ chanHasRoom(errors, ErrorsCap)
  /\ errors' = Append(errors, [lineNum |-> workers[w].lineNum,
                               cause |-> resultOf(w).msg, from |-> w])
  /\ workers' = [workers EXCEPT ![w].pc = "incErrors", ![w].errs = @ + 1]
  /\ UNCHANGED <<workerCount, closed, callers, workerPool, processedLogs, stats, mu,
                 readers, crashed>>
  /\ UNCHANGED parseVars

\* variant: a send that gives the entry up when the queue is full (select
\* with a default case), after which the goroutine goes on to count it
SendEntryOrDrop(w) ==
  /\ ~crashed
  /\ workers[w].pc = "sendEntry"
  /\ ~closed
  /\ IF chanHasRoom(processedLogs, LogsCap)
       THEN /\ processedLogs' = Append(processedLogs,
                                       [entry |-> <<workers[w].line, workers[w].logType>>,
                                        from |-> w])
            /\ workers' = [workers EXCEPT ![w].pc = "incProcessed", ![w].entries = @ + 1]
       ELSE /\ UNCHANGED processedLogs
            /\ workers' = [workers EXCEPT ![w].pc = "incProcessed"]
  /\ UNCHANGED <<workerCount, closed, callers, workerPool, errors, stats, mu,
                 readers, crashed>>
  /\ UNCHANGED parseVars

\* p.processedLogs <- entry; the queue holds the entry by the line and the
\* format it was parsed from (entryOf gives its fields)
SendEntry(w) ==
  /\ ~crashed
  /\ workers[w].pc = "sendEntry"
  /\ ~closed
  /\ chanHasRoom(processedLogs, LogsCap)
  /\ processedLogs' = Append(processedLogs, [entry |-> <<workers[w].line, workers[w].logType>>,
                                             from |-> w])
  /\ workers' = [workers EXCEPT ![w].pc = "incProcessed", ![w].entries = @ + 1]
  /\ UNCHANGED <<workerCount, closed, callers, workerPool, errors, stats, mu,
                 readers, crashed>>
  /\ UNCHANGED parseVars

\* variant: Lock that is granted while the mutex is held
canLockAlways(m) == TRUE

\* variant: RLock that is granted while a writer holds the mutex
canRLockAlways(m) == TRUE

\* s.mu.Lock() is granted when no writer and no reader holds the mutex
canLock(m) == m.writer = <<>> /\ m.readers = {}

\* s.mu.RLock() is granted when no writer holds the mutex
canRLock(m) == m.writer = <<>>

\* incrementErrors: Lock, then the load of s.Errors++
IncErrorsLock(w) ==
  /\ ~crashed
  /\ workers[w].pc = "incErrors"
  /\ canLock(mu)
  /\ mu' = [mu EXCEPT !.writer = w]
  /\ workers' = [workers EXCEPT ![w].pc = "incErrorsStore", ![w].tmp = stats.Errors]
  /\ UNCHANGED <<workerCount, closed, callers, workerPool, processedLogs, errors, stats,
                 readers, crashed>>
  /\ UNCHANGED parseVars

\* incrementErrors: the store of s.Errors++, then the deferred Unlock
IncErrorsStore(w) ==
  /\ ~crashed
  /\ workers[w].pc = "incErrorsStore"
  /\ stats' = [stats EXCEPT !.Errors = workers[w].tmp + 1]
  /\ mu' = [mu EXCEPT !.writer = IF @ = w THEN <<>> ELSE @]
  /\ workers' = [workers EXCEPT ![w].pc = "release", ![w].tmp = 0]
  /\ UNCHANGED <<workerCount, closed, callers, workerPool, processedLogs, errors,
                 readers, crashed>>
  /\ UNCHANGED parseVars

\* variant: a switch whose every case increments ApacheProcessed
typeCounterApache(logType) == "ApacheProcessed"

\* the counter the switch of incrementProcessed selects ("" for none)
typeCounter(logType) ==
  CASE logType = "apache" -> "ApacheProcessed"
    [] logType = "nginx" -> "NginxProcessed"
    [] logType = "generic" -> "GenericProcessed"
    [] OTHER -> ""

\* incrementProcessed: Lock, then the load of s.TotalProcessed++
IncProcessedLock(w) ==
  /\ ~crashed
  /\ workers[w].pc = "incProcessed"
  /\ canLock(mu)
  /\ mu' = [mu EXCEPT !.writer = w]
  /\ workers' = [workers EXCEPT ![w].pc = "incTotalStore", ![w].tmp = stats.TotalProcessed]
  /\ UNCHANGED <<workerCount, closed, callers, workerPool, processedLogs, errors, stats,
                 readers, crashed>>
  /\ UNCHANGED parseVars

\* incrementProcessed: the store of s.TotalProcessed++, the switch, and the
\* load of the per-type counter it selects
IncTotalStore(w) ==
  LET f == typeCounter(workers[w].logType) IN
  /\ ~crashed
  /\ workers[w].pc = "incTotalStore"
  /\ stats' = [stats EXCEPT !.TotalProcessed = workers[w].tmp + 1]
  /\ workers' = [workers EXCEPT ![w].pc = "incTypeStore",
                                ![w].tmp = IF f = "" THEN 0 ELSE stats[f]]
  /\ UNCHANGED <<workerCount, closed, callers, workerPool, processedLogs, errors, mu,
                 readers, crashed>>
  /\ UNCHANGED parseVars

\* incrementProcessed: the store of the per-type counter, then the deferred Unlock
IncTypeStore(w) ==
  LET f == typeCounter(workers[w].logType) IN
  /\ ~crashed
  /\ workers[w].pc = "incTypeStore"
  /\ stats' = IF f = "" THEN stats ELSE [stats EXCEPT ![f] = workers[w].tmp + 1]
  /\ mu' = [mu EXCEPT !.writer = IF @ = w THEN <<>> ELSE @]
  /\ workers' = [workers EXCEPT ![w].pc = "release", ![w].tmp = 0]
  /\ UNCHANGED <<workerCount, closed, callers, workerPool, processedLogs, errors,
                 readers, crashed>>
  /\ UNCHANGED parseVars

\* deferred: <-p.workerPool
Release(w) ==
  /\ ~crashed
  /\ workers[w].pc = "release"
  /\ workerPool' = workerPool - 1
  /\ workers' = [workers EXCEPT ![w].pc = "wgDone"]
  /\ UNCHANGED <<workerCount, closed, callers, processedLogs, errors, stats, mu,
                 readers, crashed>>
  /\ UNCHANGED parseVars

\* deferred: wg.Done(); the goroutine ends and its variables with it (line
\* stays, as the record of what the stream held at this position)
WgDone(w) ==
  /\ ~crashed
  /\ workers[w].pc = "wgDone"
  /\ callers' = [callers EXCEPT ![w[1]].wg = @ - 1]
  /\ workers' = [workers EXCEPT ![w].pc = "done", ![w].lineNum = 0, ![w].logType = ""]
  /\ UNCHANGED <<workerCount, closed, workerPool, processedLogs, errors, stats, mu,
                 readers, crashed>>
  /\ UNCHANGED parseVars

\* ---- the consumers of the two queues, and GetStats ----

\* a receive from GetProcessedLogs()
RecvEntry ==
  /\ ~crashed
  /\ processedLogs # <<>>
  /\ processedLogs' = Tail(processedLogs)
  /\ UNCHANGED <<workerCount, closed, callers, workers, workerPool, errors, stats, mu,
                 readers, crashed>>
  /\ UNCHANGED parseVars

\* a receive from GetErrors()
RecvError ==
  /\ ~crashed
  /\ errors # <<>>
  /\ errors' = Tail(errors)
  /\ UNCHANGED <<workerCount, closed, callers, workers, workerPool, processedLogs, stats, mu,
                 readers, crashed>>
  /\ UNCHANGED parseVars

\* GetStats: p.stats.mu.RLock()
GetStatsRLock(r) ==
  /\ ~crashed
  /\ readers[r] = "idle"
  /\ canRLock(mu)
  /\ mu' = [mu EXCEPT !.readers = @ \cup {r}]
  /\ readers' = [readers EXCEPT ![r] = "copy"]
  /\ UNCHANGED <<workerCount, closed, callers, workers, workerPool, processedLogs, errors, stats,
                 crashed>>
  /\ UNCHANGED parseVars

\* GetStats: the copy of the five counters as they stand (the snapshot
\* returned), then the deferred RUnlock
GetStatsCopy(r) ==
  /\ ~crashed
  /\ readers[r] = "copy"
  /\ mu' = [mu EXCEPT !.readers = @ \ {r}]
  /\ readers' = [readers EXCEPT ![r] = "idle"]
  /\ UNCHANGED <<workerCount, closed, callers, workers, workerPool, processedLogs, errors, stats,
                 crashed>>
  /\ UNCHANGED parseVars

\* the steps of ProcessFile calls and of their goroutines
Run ==
  \/ \E c \in Callers, line \in LineIds : ScanLine(c, line)
  \/ \E c \in Callers : Acquire(c)
  \/ \E c \in Callers : ScanEOF(c)
  \/ \E c \in Callers : ScanFail(c)
  \/ \E c \in Callers : Wait(c)
  \/ \E w \in WorkerIds : WorkerParse(w)
  \/ \E w \in WorkerIds : SendErr(w)
  \/ \E w \in WorkerIds : SendEntry(w)
  \/ \E w \in WorkerIds : IncErrorsLock(w)
  \/ \E w \in WorkerIds : IncErrorsStore(w)
  \/ \E w \in WorkerIds : IncProcessedLock(w)
  \/ \E w \in WorkerIds : IncTotalStore(w)
  \/ \E w \in WorkerIds : IncTypeStore(w)
  \/ \E w \in WorkerIds : Release(w)
  \/ \E w \in WorkerIds : WgDone(w)

\* the same with a consumer of the output queue beside them
Work ==
  \/ Run
  \/ RecvEntry

\* the same with a consumer of the error queue beside them
Ingest ==
  \/ Work
  \/ RecvError

\* one ProcessFile call with GetStats callers running beside its workers
Next ==
  \/ \E t \in LogTypes : StartCall("c1", t)
  \/ Ingest
  \/ \E r \in Readers : GetStatsRLock(r)
  \/ \E r \in Readers : GetStatsCopy(r)

Spec == Init /\ [][Next]_vars

\* two ProcessFile calls on one Processor, concurrent or one after the other
NextCalls ==
  \/ \E c \in Callers, t \in LogTypes : StartCall(c, t)
  \/ Ingest

SpecCalls == InitCalls /\ [][NextCalls]_vars

\* one ProcessFile call on a stream that ends, its goroutines and the two
\* consumers, under a scheduler that runs one of them whenever one can run
NextLive ==
  \/ \E t \in LogTypes : StartCall("c1", t)
  \/ Ingest

SpecLive == Init /\ [][NextLive]_vars /\ WF_vars(Ingest)

\* one ProcessFile call whose errors nobody receives: GetErrors() is not
\* ranged over, the output queue is
NextStall ==
  \/ \E t \in LogTypes : StartCall("c1", t)
  \/ Work

SpecStall == Init /\ [][NextStall]_vars

\* ---- Close ----

\* every ProcessFile call made on the Processor has returned, and one was made
allReturned ==
  /\ \A c \in Callers : callers[c].pc \in {"idle", "returned"}
  /\ \E c \in Callers : callers[c].pc = "returned"

\* Close(): close(p.processedLogs), close(p.errors), close(p.workerPool),
\* called once and after the ProcessFile calls have returned
Close ==
  /\ ~crashed
  /\ ~closed
  /\ allReturned
  /\ closed' = TRUE
  /\ UNCHANGED <<workerCount, callers, workers, workerPool, processedLogs, errors, stats,
                 mu, readers, crashed>>
  /\ UNCHANGED parseVars

\* p.errors <- ... or p.processedLogs <- entry on the closed queue: the send
\* panics, and the panic ends the process
SendOnClosed(w) ==
  /\ ~crashed
  /\ closed
  /\ workers[w].pc \in {"sendErr", "sendEntry"}
  /\ workers' = [workers EXCEPT ![w].pc = "panicked"]
  /\ crashed' = TRUE
  /\ UNCHANGED <<workerCount, closed, callers, workerPool, processedLogs, errors, stats,
                 mu, readers>>
  /\ UNCHANGED parseVars

\* one ProcessFile call, the two consumers, and Close after the call has returned
NextClose ==
  \/ \E t \in LogTypes : StartCall("c1", t)
  \/ Ingest
  \/ Close
  \/ \E w \in WorkerIds : SendOnClosed(w)

SpecClose == Init /\ [][NextClose]_vars

\* ---- the server: uploadLogHandler, processLogFile, storeProcessedLogs ----

\* the tags uploadLogHandler lets through
UploadTypes == {"apache", "nginx", "generic"}

\* NewProcessor(10) of the server, scaled down with the queues
ServerWorkers == 2

InitServer == NewProcessor(ServerWorkers) /\ NoInputs

\* go s.processLogFile(file, logType): the ProcessFile call begins
Upload(c, t) == StartCall(c, t)

\* processLogFile after ProcessFile has returned: an error is handed back,
\* otherwise go s.storeProcessedLogs() is started and nil is returned
processLogFile(c) ==
  /\ ~crashed
  /\ callers[c].pc = "returned"
  /\ callers' = [callers EXCEPT ![c].pc = IF callers[c].ret = "nil" THEN "storing" ELSE "failed"]
  /\ UNCHANGED <<workerCount, closed, workers, workerPool, processedLogs, errors, stats, mu,
                 readers, crashed>>
  /\ UNCHANGED parseVars

\* a storeProcessedLogs goroutine has been started
storing == \E c \in Callers : callers[c].pc = "storing"

\* storeProcessedLogs: one turn of the range over GetProcessedLogs(), the
\* entry is handed to storeLogEntry
storeProcessedLogs ==
  /\ storing
  /\ RecvEntry

\* what the server runs for one upload; nothing in it receives from GetErrors()
ServerRun ==
  \/ Run
  \/ \E c \in Callers : processLogFile(c)
  \/ storeProcessedLogs

NextServer ==
  \/ \E t \in UploadTypes : Upload("c1", t)
  \/ ServerRun

SpecServer == InitServer /\ [][NextServer]_vars /\ WF_vars(ServerRun)

(***************************************************************************)
(* parseLogLine on lines put together token by token.                      *)
(***************************************************************************)
\* the tokens of LineFull, and a processing time after them
ApacheTokens ==
  << <<"1", ".", "1", ".", "1", ".", "1">>,
     <<"-">>,
     <<"-">>,
     <<"[", "1", "0", "/", "O", "c", "t", "/", "2", "0", "2", "3", ":", "1", "3", ":", "5", "5", ":", "3", "6">>,
     <<"+", "0", "0", "0", "0", "]">>,
     <<"\"", "G", "E", "T", " ", "/", " ", "H", "\"">>,
     <<"2", "0", "0">>,
     <<"5">>,
     <<"\"", "-", "\"">>,
     <<"\"", "M", "\"">>,
     <<"0", ".", "5">> >>

\* 2023-10-10 13:55:36 ERROR k=1
GenericTokens ==
  << <<"2", "0", "2", "3", "-", "1", "0", "-", "1", "0">>,
     <<"1", "3", ":", "5", "5", ":", "3", "6">>,
     <<"E", "R", "R", "O", "R">>,
     <<"k", "=", "1">> >>

\* longest line put together
MaxTokens == 11

\* the token a line can hold at place i: "a" the Apache token of that place,
\* "g" the generic one, "x" a token that fits no field
TokenKinds(i) ==
  {"x"} \cup (IF i <= Len(ApacheTokens) THEN {"a"} ELSE {})
        \cup (IF i <= Len(GenericTokens) THEN {"g"} ELSE {})

\* further tokens: "e" the empty quoted segment, "b" a quoted segment that
\* holds a backslash, "n" a number with a minus sign
TokenText(i, k) ==
  CASE k = "a" -> ApacheTokens[i]
    [] k = "g" -> GenericTokens[i]
    [] k = "e" -> <<QUOTE, QUOTE>>
    [] k = "b" -> <<QUOTE, "a", BACKSLASH, "b", QUOTE>>
    [] k = "n" -> <<"-", "5">>
    [] OTHER -> <<"x">>

\* the line of the tokens chosen so far, one space between them
LineOf(ks) == Join([i \in 1..Len(ks) |-> TokenText(i, ks[i])], 1, <<SP>>)

AddToken(k) ==
  /\ pOut = NoParse
  /\ Len(pIn) < MaxTokens
  /\ k \in TokenKinds(Len(pIn) + 1)
  /\ pIn' = Append(pIn, k)
  /\ UNCHANGED pOut
  /\ UNCHANGED <<pairVars, data>>
  /\ UNCHANGED pipeVars

\* latest reading of the clock at a first parse
MaxClock == 2

\* timestamp = time.Now(): the result r of a parse made when the clock reads now
timeNow(r, now) ==
  IF r.kind = "entry" /\ r.entry.Timestamp = NowTime
  THEN [r EXCEPT !.entry.Timestamp.sec = now]
  ELSE r

\* the two results as they are at the readings now and now + 1 of the clock
parsedTwice(line, t, first, second) ==
  \E now \in 1..MaxClock :
    pOut' = [line |-> line, logType |-> t,
             result |-> timeNow(first, now), again |-> timeNow(second, now + 1)]

\* entry, err := p.parseLogLine(line, logType), and the same call once more at
\* a later reading of the clock
Parse(t) ==
  /\ pOut = NoParse
  /\ parsedTwice(LineOf(pIn), t, parseLogLine(LineOf(pIn), t), parseLogLine(LineOf(pIn), t))
  /\ UNCHANGED pIn
  /\ UNCHANGED <<pairVars, data>>
  /\ UNCHANGED pipeVars

NextLine ==
  /\ pOut # NoParse
  /\ pIn' = <<>>
  /\ pOut' = NoParse
  /\ UNCHANGED <<pairVars, data>>
  /\ UNCHANGED pipeVars

NextParse ==
  \/ \E k \in {"a", "g", "x"} : AddToken(k)
  \/ \E t \in LogTypes : Parse(t)
  \/ NextLine

SpecParse == InitCalls /\ [][NextParse]_vars

(***************************************************************************)
(* splitApacheLog, parseApacheLog and parseNginxLog on the sample line with *)
(* one token replaced.                                                     *)
(***************************************************************************)
FieldKinds == {"a", "x", "e", "b", "n"}

\* most tokens of a line that depart from the sample line
MaxOdd == 1

oddFields(ks) == Cardinality({i \in 1..Len(ks) : ks[i] # "a"})

AddField(k) ==
  /\ pOut = NoParse
  /\ Len(pIn) < Len(ApacheTokens)
  /\ oddFields(Append(pIn, k)) <= MaxOdd
  /\ pIn' = Append(pIn, k)
  /\ UNCHANGED pOut
  /\ UNCHANGED <<pairVars, data>>
  /\ UNCHANGED pipeVars

\* parts := p.splitApacheLog(line), on its own
Tokenize ==
  /\ pOut = NoParse
  /\ pOut' = [line |-> LineOf(pIn), logType |-> "", result |-> NoResult,
              again |-> NoResult, parts |-> splitApacheLog(LineOf(pIn))]
  /\ UNCHANGED pIn
  /\ UNCHANGED <<pairVars, data>>
  /\ UNCHANGED pipeVars

NextFields ==
  \/ \E k \in FieldKinds : AddField(k)
  \/ \E t \in {"apache", "nginx"} : Parse(t)
  \/ Tokenize
  \/ NextLine

SpecFields == InitCalls /\ [][NextFields]_vars

(***************************************************************************)
(* extractKeyValuePairs on the messages put together from key=value tokens *)
(* and plain words.                                                        *)
(***************************************************************************)
\* most tokens in a message
MaxPairs == 2

\* the keys of the tokens; "" stands for a token without key and without "="
KvKeys == {"k", "error", ""}

KeyText(k) ==
  CASE k = "k" -> <<"k">>
    [] k = "error" -> <<"e", "r", "r", "o", "r">>
    [] OTHER -> <<>>

\* the values of the tokens, named by their text
KvValues == {"12345", "192.168.1.102", "false", "active", "1", "0", "1.5", "t", "inf",
             "-7", "1e3", "yes"}

ValueText(v) ==
  CASE v = "12345" -> <<"1", "2", "3", "4", "5">>
    [] v = "192.168.1.102" -> <<"1", "9", "2", ".", "1", "6", "8", ".", "1", ".", "1", "0", "2">>
    [] v = "false" -> <<"f", "a", "l", "s", "e">>
    [] v = "active" -> <<"a", "c", "t", "i", "v", "e">>
    [] v = "1" -> <<"1">>
    [] v = "0" -> <<"0">>
    [] v = "1.5" -> <<"1", ".", "5">>
    [] v = "t" -> <<"t">>
    [] v = "inf" -> <<"i", "n", "f">>
    [] v = "-7" -> <<"-", "7">>
    [] v = "1e3" -> <<"1", "e", "3">>
    [] v = "yes" -> <<"y", "e", "s">>

\* the token of key k and value v: key=value, or the value alone
PairText(k, v) == IF k = "" THEN ValueText(v) ELSE KeyText(k) \o <<"=">> \o ValueText(v)

\* the message of the tokens chosen so far, one space between them
MessageOf(ps) == Join([i \in 1..Len(ps) |-> PairText(ps[i].key, ps[i].val)], 1, <<SP>>)

AddPair(k, v) ==
  /\ ~kvOut.done
  /\ Len(kvIn) < MaxPairs
  /\ kvIn' = Append(kvIn, [key |-> k, val |-> v])
  /\ UNCHANGED kvOut
  /\ UNCHANGED <<lineVars, data>>
  /\ UNCHANGED pipeVars

\* metadata := p.extractKeyValuePairs(message)
ExtractPairs ==
  /\ ~kvOut.done
  /\ kvOut' = [message |-> MessageOf(kvIn),
               metadata |-> extractKeyValuePairs(MessageOf(kvIn)), done |-> TRUE]
  /\ UNCHANGED kvIn
  /\ UNCHANGED <<lineVars, data>>
  /\ UNCHANGED pipeVars

NextMessage ==
  /\ kvOut.done
  /\ kvIn' = <<>>
  /\ kvOut' = NoPairs
  /\ UNCHANGED <<lineVars, data>>
  /\ UNCHANGED pipeVars

NextPairs ==
  \/ \E k \in KvKeys, v \in KvValues : AddPair(k, v)
  \/ ExtractPairs
  \/ NextMessage

SpecPairs == InitCalls /\ [][NextPairs]_vars

(***************************************************************************)
(* Reports: the entries of a ReportData are put together, then a report is *)
(* generated from it.                                                      *)
(***************************************************************************)
\* most entries in a ReportData
MaxEntries == 12

\* first number of the entries that share two paths and differ in their IP
IPFamily == 101

\* The entries a ReportData can hold.  Entry k of the first family has a path
\* of its own and one of two IPs, entry IPFamily + k - 1 of the second an IP
\* of its own and one of two paths; status code, processing time (in
\* thousandths of a second) and hour go round with k.
Sample(k) ==
  LET j == IF k >= IPFamily THEN k - IPFamily + 1 ELSE k IN
  [Path |-> IF k >= IPFamily THEN 1 + (j % 2) ELSE j,
   SourceIP |-> IF k >= IPFamily THEN j ELSE 1 + (j % 2),
   StatusCode |-> CASE j % 5 = 1 -> 200 [] j % 5 = 2 -> 404 [] j % 5 = 3 -> 500
                    [] j % 5 = 4 -> 399 [] OTHER -> 400,
   ProcessingTime |-> CASE j % 4 = 1 -> 0 [] j % 4 = 2 -> 250 [] j % 4 = 3 -> 1500
                        [] OTHER -> 0 - 500,
   Timestamp |-> [hour |-> CASE j % 3 = 1 -> 0 [] j % 3 = 2 -> 13 [] OTHER -> 23],
   sample |-> k]

\* LogEntries: logs.  The entries come in the order of their numbers, a new
\* number being the successor of the last.
AddEntry(k) ==
  /\ ~data.prepared
  /\ Len(data.LogEntries) < MaxEntries
  /\ IF data.LogEntries = <<>> THEN k \in {1, IPFamily}
     ELSE k - data.LogEntries[Len(data.LogEntries)].sample \in {0, 1}
  /\ data' = [data EXCEPT !.LogEntries = Append(@, Sample(k))]
  /\ UNCHANGED inputVars
  /\ UNCHANGED pipeVars

\* GenerateHTMLReport, GenerateSummaryReport: r.prepareSummary(data)
GenerateReport ==
  /\ ~data.prepared
  /\ \E pathOrder \in MapOrders(pathCounts(data.LogEntries)) :
       \E ipOrder \in MapOrders(ipCounts(data.LogEntries)) :
         data' = [data EXCEPT !.Summary = prepareSummary(data, pathOrder, ipOrder),
                              !.prepared = TRUE]
  /\ UNCHANGED inputVars
  /\ UNCHANGED pipeVars

\* the next ReportData
NextReport ==
  /\ data.prepared
  /\ data' = NewReportData
  /\ UNCHANGED inputVars
  /\ UNCHANGED pipeVars

NextReports ==
  \/ \E k \in 1..(IPFamily + MaxEntries) : AddEntry(k)
  \/ GenerateReport
  \/ NextReport

SpecReports == InitCalls /\ [][NextReports]_vars

\* the collections a summarised ReportData is given next: the one it holds,
\* none, and one entry
NextEntries == {data.LogEntries, <<>>, <<Sample(1)>>, <<Sample(2)>>}

\* data.LogEntries = entries on a ReportData that has been summarised, and the
\* next report generated from it: r.prepareSummary(data) once more
GenerateAgain(entries) ==
  /\ data.prepared
  /\ \E pathOrder \in MapOrders(pathCounts(entries)) :
       \E ipOrder \in MapOrders(ipCounts(entries)) :
         data' = [data EXCEPT
                    !.LogEntries = entries,
                    !.Summary = prepareSummary([data EXCEPT !.LogEntries = entries],
                                               pathOrder, ipOrder)]
  /\ UNCHANGED inputVars
  /\ UNCHANGED pipeVars

\* most entries of a ReportData that lives on after its first report
MaxReused == 5

AddFirstEntries(k) ==
  /\ Len(data.LogEntries) < MaxReused
  /\ AddEntry(k)

NextReuse ==
  \/ \E k \in 1..(IPFamily + MaxReused) : AddFirstEntries(k)
  \/ GenerateReport
  \/ NextReport
  \/ \E entries \in NextEntries : GenerateAgain(entries)

SpecReuse == InitCalls /\ [][NextReuse]_vars

(***************************************************************************)
(* Properties of one ProcessFile call (Spec).                              *)
(***************************************************************************)
\* the sends the goroutine of w has made on the two queues
outcomes(w) == workers[w].entries + workers[w].errs

returnedNil(c) == callers[c].pc = "returned" /\ callers[c].ret = "nil"

\* the goroutine of w has come back from incrementErrors, from the
\* TotalProcessed++ of incrementProcessed, from incrementProcessed
errorCounted(w) == workers[w].kind = "error" /\ workers[w].pc \in {"release", "wgDone", "done"}
totalCounted(w) ==
  workers[w].kind = "entry" /\ workers[w].pc \in {"incTypeStore", "release", "wgDone", "done"}
typeCounted(w) == workers[w].kind = "entry" /\ workers[w].pc \in {"release", "wgDone", "done"}

C2_JoinBarrier ==
  \A c \in Callers : callers[c].pc = "returned" =>
    \A w \in workersOf(c) : workers[w].pc \in {"none", "skipped", "done"}

\* C4: a call that read its stream to the end returns nil, and a call that
\* returns anything else has met a read failure.
C4_OnlyReadErrors ==
  \A c \in Callers : callers[c].pc = "returned" =>
    /\ ~callers[c].readErr => callers[c].ret = "nil"
    /\ callers[c].ret # "nil" => callers[c].readErr /\ callers[c].ret = "error reading file"

\* a call has returned nil although every line it read failed to parse
C4_Witness ==
  /\ returnedNil("c1")
  /\ callers["c1"].lineCount = MaxLines
  /\ \A w \in workersOf("c1") : workers[w].kind = "error"

\* C5: no line ends the process: parsing it gives an entry or an error.
C5_NoLineAborts ==
  /\ ~crashed
  /\ \A w \in WorkerIds : workers[w].kind \in {"none", "entry", "error"}

\* C6: the counters a GetStats call copies satisfy
\* TotalProcessed = ApacheProcessed + NginxProcessed + GenericProcessed.
C6_NoTornSnapshot ==
  \A r \in Readers : readers[r] = "copy" =>
    stats.TotalProcessed = stats.ApacheProcessed + stats.NginxProcessed + stats.GenericProcessed

\* GetStats copies while a goroutine waits to enter incrementProcessed and
\* another has been counted
C6_Witness ==
  /\ \E r \in Readers : readers[r] = "copy"
  /\ stats.TotalProcessed = 1
  /\ \E w \in WorkerIds : workers[w].pc = "incProcessed"

\* the goroutines counted for the format t
countedFor(t) == {w \in WorkerIds : typeCounted(w) /\ callers[w[1]].logType = t}

\* C7: the counters a GetStats call copies are the numbers of increment calls
\* made so far: none is lost, whatever their interleaving.
C7_NoLostUpdate ==
  \A r \in Readers : readers[r] = "copy" =>
    /\ stats.TotalProcessed = Cardinality({w \in WorkerIds : totalCounted(w)})
    /\ stats.ApacheProcessed = Cardinality(countedFor("apache"))
    /\ stats.NginxProcessed = Cardinality(countedFor("nginx"))
    /\ stats.GenericProcessed = Cardinality(countedFor("generic"))
    /\ stats.Errors = Cardinality({w \in WorkerIds : errorCounted(w)})

\* GetStats copies after two goroutines that ran side by side have counted
C7_Witness ==
  /\ \E r \in Readers : readers[r] = "copy"
  /\ workerCount > 1
  /\ stats.TotalProcessed + stats.Errors = MaxLines
  /\ \A w \in workersOf("c1") : workers[w].pc \in {"release", "wgDone"}

holdingSlot ==
  {w \in WorkerIds : workers[w].pc \in {"parse", "sendErr", "sendEntry", "incErrors",
                                        "incErrorsStore", "incProcessed", "incTotalStore",
                                        "incTypeStore", "release", "panicked"}}

\* the goroutines started whose wg.Done() has not run
notFinished == {w \in WorkerIds : workers[w].pc \notin {"none", "skipped", "done"}}

\* C3 (as amended): at every moment at most workerCount goroutines hold a pool
\* slot, whichever calls started them; a goroutine holds its slot from its start
\* until its parse, its send and its count are done.
C3_SlotsBounded ==
  /\ Cardinality(holdingSlot) <= workerCount
  /\ workerPool = Cardinality(holdingSlot)

\* C3 (as stated): at every moment at most workerCount goroutines are started
\* and not yet finished.
C3_StartedNotFinished == Cardinality(notFinished) <= workerCount

\* both calls run, the pool is full and a dispatcher waits for a slot
C3_Witness ==
  /\ \A c \in Callers : callers[c].pc \notin {"idle", "returned"}
  /\ Cardinality(holdingSlot) = workerCount
  /\ \E c \in Callers : callers[c].pc = "acquire"

\* the lines of call c that parsed
succeeded(c) == {w \in workersOf(c) : workers[w].kind = "entry"}

\* C8: when ProcessFile(reader, t) has returned nil, TotalProcessed and the
\* counter of t hold one count for each line of the call that parsed, on top of
\* what the goroutines of the other call have counted, and the other counters
\* hold only what those have counted: nothing is reset between calls.
C8_CountersGrow ==
  \A c \in Callers :
    returnedNil(c) /\ callers[c].logType \in {"apache", "nginx", "generic"} =>
      LET others == WorkerIds \ workersOf(c)
          own(t) == IF callers[c].logType = t THEN Cardinality(succeeded(c)) ELSE 0
      IN /\ stats.TotalProcessed =
              Cardinality(succeeded(c)) + Cardinality({w \in others : totalCounted(w)})
         /\ \A t \in {"apache", "nginx", "generic"} :
              stats[typeCounter(t)] = own(t) + Cardinality(countedFor(t) \cap others)

\* a generic call of two lines that parsed and an apache call of one have both
\* returned nil
C8_Witness ==
  /\ \A c \in Callers : returnedNil(c)
  /\ callers["c1"].logType = "generic" /\ callers["c2"].logType = "apache"
  /\ stats.TotalProcessed = MaxLines + MaxLinesSecond
  /\ stats.GenericProcessed = MaxLines
  /\ stats.ApacheProcessed = MaxLinesSecond

(***************************************************************************)
(* Properties of parseLogLine (SpecParse).                                 *)
(***************************************************************************)
\* the white-space separated fields of the tokens ks
RECURSIVE fieldCount(_)
fieldCount(ks) ==
  IF ks = <<>> THEN 0
  ELSE LET tok == TokenText(Len(ks), ks[Len(ks)])
       IN fieldCount(SubSeq(ks, 1, Len(ks) - 1))
            + 1 + Cardinality({i \in 1..Len(tok) : tok[i] = SP})

\* C10: a line of fewer than 9 tokens (apache, nginx) or fewer than 3 fields
\* (generic) gives the format error of its parser and no entry; no result is an
\* entry and an error at once, and an entry has its fields filled.
C10_ShortLineFormatError ==
  pOut # NoParse =>
    LET r == pOut.result IN
    /\ pOut.logType = "apache" /\ Len(pIn) < 9 => r = Error("invalid Apache log format")
    /\ pOut.logType = "nginx" /\ Len(pIn) < 9 => r = Error("invalid Nginx log format")
    /\ pOut.logType = "generic" /\ fieldCount(pIn) < 3 =>
         r = Error("invalid generic log format")
    /\ r.kind \in {"entry", "error", "panic"}
    /\ r.kind = "error" => r.entry = NoEntry /\ r.msg # ""
    /\ r.kind = "entry" =>
         /\ r.msg = ""
         /\ r.entry.Timestamp.ok
         /\ r.entry.LogType = pOut.logType
         /\ r.entry.RawLog = pOut.line
         /\ pOut.logType \in {"apache", "nginx"} =>
              r.entry.SourceIP # <<>> /\ r.entry.Method # <<>> /\ r.entry.Path # <<>>

\* the first eight tokens of a full line, parsed as apache
C10_Witness ==
  /\ pOut.logType = "apache"
  /\ Len(pIn) = 8
  /\ \A i \in 1..Len(pIn) : pIn[i] = "a"
  /\ pOut.result.kind = "error"

\* the tokens of pIn at the places parseApacheLog and parseNginxLog check: the
\* IP, the two halves of the timestamp, the request line and the status code
checkedFieldsValid == \A i \in {1, 4, 5, 6, 7} : i <= Len(pIn) /\ pIn[i] = "a"

\* C11: an apache or nginx line of 9 or more tokens whose IP, timestamp,
\* request line and status code are valid gives an entry.
C11_NineTokensAccepted ==
  pOut # NoParse /\ pOut.logType \in {"apache", "nginx"} /\ Len(pIn) >= 9
    /\ checkedFieldsValid => pOut.result.kind = "entry"

(***************************************************************************)
(* Properties of a call with an unsupported format tag (Spec).             *)
(***************************************************************************)
\* C12: a ProcessFile call whose format tag is none of apache, nginx, generic
\* reads its stream to the end and returns nil; each non-blank line gives one
\* error naming the tag and no entry; TotalProcessed and the three per-format
\* counters stay as they were and Errors grows by the number of non-blank lines.
C12_UnsupportedTag ==
  \A c \in Callers :
    callers[c].pc # "idle" /\ callers[c].logType \notin {"apache", "nginx", "generic"} =>
      /\ \A w \in workersOf(c) :
           workers[w].kind \in {"none", "error"} /\ workers[w].entries = 0
      /\ processedLogs = <<>>
      /\ \A i \in 1..Len(errors) :
           errors[i].cause = "unsupported log type: " \o callers[c].logType
      /\ stats.TotalProcessed = 0 /\ stats.ApacheProcessed = 0
      /\ stats.NginxProcessed = 0 /\ stats.GenericProcessed = 0
      /\ stats.Errors <= callers[c].lineCount
      /\ callers[c].pc = "returned" /\ ~callers[c].readErr => callers[c].ret = "nil"
      /\ returnedNil(c) =>
           /\ stats.Errors = callers[c].lineCount
           /\ \A w \in workersOf(c) :
                w[2] <= callers[c].pos /\ workers[w].pc # "skipped" => workers[w].errs = 1

\* a call tagged syslog has returned nil after two non-blank lines
C12_Witness ==
  /\ returnedNil("c1")
  /\ callers["c1"].logType = "syslog"
  /\ callers["c1"].lineCount = MaxLines
  /\ stats.Errors = MaxLines

Stored(v) ==
  CASE v = "12345" -> [type |-> "int", val |-> 12345]
    [] v = "1" -> [type |-> "int", val |-> 1]
    [] v = "0" -> [type |-> "int", val |-> 0]
    [] v = "-7" -> [type |-> "int", val |-> 0 - 7]
    [] v = "1.5" -> [type |-> "float", val |-> [ok |-> TRUE, milli |-> 1500, form |-> "decimal"]]
    [] v = "inf" -> [type |-> "float", val |-> [ok |-> TRUE, milli |-> 0, form |-> "+inf"]]
    [] v = "1e3" -> [type |-> "float", val |-> [ok |-> TRUE, milli |-> 0, form |-> "exponent"]]
    [] v = "false" -> [type |-> "bool", val |-> FALSE]
    [] v = "t" -> [type |-> "bool", val |-> TRUE]
    [] OTHER -> [type |-> "string", val |-> ValueText(v)]

\* the places of kvIn that hold a key=value token with the key k
placesOf(k) == {i \in 1..Len(kvIn) : kvIn[i].key = k}

\* C14: the metadata hold one item for each key of a key=value token of the
\* message and none for a plain word; the item is the value of the key's last
\* token, as an integer if it reads as one, else as a float if it reads as
\* one, else as a boolean if it reads as one, else as the string itself.
C14_CoercionOrder ==
  kvOut.done =>
    /\ DOMAIN kvOut.metadata = {KeyText(k) : k \in {k \in KvKeys \ {""} : placesOf(k) # {}}}
    /\ \A k \in KvKeys \ {""} : \A i \in placesOf(k) :
         (\A j \in placesOf(k) : j <= i) =>
           /\ kvOut.metadata[KeyText(k)].type = Stored(kvIn[i].val).type
           /\ kvOut.metadata[KeyText(k)].val = Stored(kvIn[i].val).val
           /\ Atoi(ValueText(kvIn[i].val)).ok => kvOut.metadata[KeyText(k)].type = "int"

\* k=1 error=false: an integer that ParseBool would read too, and a boolean
C14_Witness ==
  /\ kvOut.done
  /\ kvIn = <<[key |-> "k", val |-> "1"], [key |-> "error", val |-> "false"]>>
  /\ kvOut.metadata[<<"k">>].type = "int"
  /\ kvOut.metadata[KeyText("error")] = [type |-> "bool", val |-> FALSE]

(***************************************************************************)
(* Properties of prepareSummary (SpecReports).                             *)
(***************************************************************************)
\* the sum of the numbers ns[1] .. ns[i]
RECURSIVE sumUpTo(_, _)
sumUpTo(ns, i) == IF i = 0 THEN 0 ELSE sumUpTo(ns, i - 1) + ns[i]

sumOf(ns) == sumUpTo(ns, Len(ns))

\* the entries of data in error: those with a status code of 400 or more
inError == {i \in 1..Len(data.LogEntries) : data.LogEntries[i].StatusCode >= 400}

\* C15: ErrorRate is 100 * (entries with StatusCode >= 400) / (entries), and 0
\* for no entries; 3 of 10 entries in error give 30.
C15_ErrorRate ==
  data.prepared =>
    LET n == Len(data.LogEntries)
        rate == data.Summary.ErrorRate
    IN /\ n = 0 => FloatEq(rate, FloatZero)
       /\ n > 0 => FloatEq(rate, [num |-> 100 * Cardinality(inError), den |-> n])
       /\ n = 10 /\ Cardinality(inError) = 3 => FloatEq(rate, [num |-> 30, den |-> 1])

\* a summary of 10 entries, 3 of them in error
C15_Witness ==
  /\ data.prepared
  /\ Len(data.LogEntries) = 10
  /\ Cardinality(inError) = 3
  /\ data.Summary.ErrorRate.num = 30 * data.Summary.ErrorRate.den

\* how often each value of the field occurs in the entries of data
occurrences(field) ==
  [k \in {data.LogEntries[i][field] : i \in 1..Len(data.LogEntries)} |->
     Cardinality({i \in 1..Len(data.LogEntries) : data.LogEntries[i][field] = k})]

\* the sum of the counts of the items of list
listed(list) == sumOf([i \in 1..Len(list) |-> list[i].Count])

\* list is a top list for the counts occ
topList(list, occ) ==
  /\ Len(list) = IF Cardinality(DOMAIN occ) < TopN THEN Cardinality(DOMAIN occ) ELSE TopN
  /\ \A i \in 1..Len(list) :
       /\ list[i].Key \in DOMAIN occ
       /\ list[i].Count = occ[list[i].Key]
       /\ \A j \in 1..Len(list) :
            i < j => list[i].Key # list[j].Key /\ list[i].Count >= list[j].Count
       /\ \A k \in DOMAIN occ \ {list[j].Key : j \in 1..Len(list)} :
            occ[k] <= list[i].Count
       /\ FloatEq(list[i].Percentage, [num |-> 100 * list[i].Count, den |-> listed(list)])
       /\ list[i].Percentage.den = list[1].Percentage.den
  /\ list # <<>> =>
       sumOf([i \in 1..Len(list) |-> list[i].Percentage.num]) = 100 * list[1].Percentage.den

\* C16: TopPaths and TopIPs hold min(10, distinct values) items, the counts
\* never growing along the list, no value left out having a larger count than
\* one listed; each percentage is 100 * count / (sum of the listed counts), and
\* the percentages of a list that is not empty sum to 100.
C16_TopLists ==
  data.prepared =>
    /\ topList(data.Summary.TopPaths, occurrences("Path"))
    /\ topList(data.Summary.TopIPs, occurrences("SourceIP"))

\* eleven paths, ten of them listed; the entries outnumber the listed counts
C16_Witness ==
  /\ data.prepared
  /\ Cardinality(DOMAIN occurrences("Path")) = TopN + 1
  /\ Len(data.Summary.TopPaths) = TopN
  /\ data.Summary.TopPaths[1].Count = 2
  /\ Len(data.LogEntries) > listed(data.Summary.TopPaths)

\* C17: HourlyTraffic has 24 buckets, for the hours 0..23 in this order; the
\* count of a bucket is the number of entries of its hour, 0 if there is none,
\* and the counts sum to the number of entries.
C17_HourlyTraffic ==
  data.prepared =>
    LET traffic == data.Summary.HourlyTraffic IN
    /\ Len(traffic) = 24
    /\ \A h \in 0..23 :
         /\ traffic[h + 1].Hour = h
         /\ traffic[h + 1].Count =
              Cardinality({i \in 1..Len(data.LogEntries) :
                             data.LogEntries[i].Timestamp.hour = h})
    /\ sumOf([i \in 1..Len(traffic) |-> traffic[i].Count]) = Len(data.LogEntries)

\* entries at the hours 0, 13 and 23 and none at the hour 1
C17_Witness ==
  /\ data.prepared
  /\ Len(data.LogEntries) = 4
  /\ data.Summary.HourlyTraffic[1].Count = 2
  /\ data.Summary.HourlyTraffic[2].Count = 0
  /\ data.Summary.HourlyTraffic[14].Count = 1
  /\ data.Summary.HourlyTraffic[24].Count = 1

\* the entries of data that took time
timed == {i \in 1..Len(data.LogEntries) : data.LogEntries[i].ProcessingTime > 0}

\* C18: AvgResponseTime is the sum of ProcessingTime over the entries with
\* ProcessingTime > 0 divided by their number; it is the average of the
\* entries left when those with ProcessingTime 0 are taken out.
C18_AvgProcessingTime ==
  data.prepared =>
    LET avg == data.Summary.AvgResponseTime
        times == [i \in 1..Len(data.LogEntries) |->
                    IF i \in timed THEN data.LogEntries[i].ProcessingTime ELSE 0]
        tookTime(e) == e.ProcessingTime # 0
        rest == timeLoop(SelectSeq(data.LogEntries, tookTime), 1,
                         [totalTime |-> 0, timeCount |-> 0])
    IN /\ timed # {} => FloatEq(avg, [num |-> sumOf(times), den |-> Cardinality(timed)])
       /\ timed = {} => FloatEq(avg, FloatZero)
       /\ rest.timeCount = Cardinality(timed)
       /\ rest.timeCount > 0 => FloatEq(avg, FloatDiv(rest.totalTime, rest.timeCount))

\* entries of 0, 0.25, 1.5 and -0.5 seconds: the average is 0.875 seconds
C18_Witness ==
  /\ data.prepared
  /\ Len(data.LogEntries) = 5
  /\ Cardinality(timed) = 2
  /\ Cardinality({i \in 1..Len(data.LogEntries) : data.LogEntries[i].ProcessingTime = 0}) = 2
  /\ data.Summary.AvgResponseTime.num = 875 * data.Summary.AvgResponseTime.den

(***************************************************************************)
(* Properties of the delivery order and of termination (Spec, SpecLive).   *)
(***************************************************************************)
\* the line at stream position w of its call gives an entry
accepted(w) == parsed[workers[w].line][callers[w[1]].logType].kind = "entry"

\* C19: whatever the interleaving, the entries pushed are those of the
\* accepted lines of the stream, one for each: an item of the output queue is
\* the entry of the line at its goroutine's position; once the call has
\* returned nil each position has pushed one entry if its line is accepted
\* and none if it is not; and when the process has died every goroutine
\* started for an accepted line has pushed its entry, as it has in the
\* executions where it runs before the panic.
C19_SameEntries ==
  /\ crashed =>
       \A w \in WorkerIds :
         workers[w].pc \notin {"none", "skipped"} /\ accepted(w) => workers[w].entries = 1
  /\ \A i \in 1..Len(processedLogs) :
       LET w == processedLogs[i].from IN
       /\ processedLogs[i].entry = <<workers[w].line, callers[w[1]].logType>>
       /\ accepted(w)
       /\ workers[w].entries = 1
  /\ \A w \in WorkerIds : workers[w].entries <= 1
  /\ \A c \in Callers : returnedNil(c) =>
       \A w \in workersOf(c) :
         w[2] <= callers[c].pos /\ workers[w].pc # "skipped" =>
           workers[w].entries = IF accepted(w) THEN 1 ELSE 0

\* with a pool of two, the entry of the second line has been pushed and
\* received while the entry of the first line is still to be pushed
laterLineFirst ==
  /\ workerCount >= 2
  /\ workers[<<"c1", 2>>].entries = 1
  /\ workers[<<"c1", 1>>].pc = "sendEntry"
  /\ accepted(<<"c1", 1>>)
  /\ processedLogs = <<>>

\* C20: a ProcessFile call that has begun returns.
C20_Terminates == (callers["c1"].pc = "scan") ~> (callers["c1"].pc = "returned")

\* a call that has begun returns or the process dies of a panic
returnsOrDies ==
  (callers["c1"].pc = "scan") ~> (callers["c1"].pc = "returned" \/ crashed)

\* the process has died after the goroutine of the first line has pushed
deliveredBeforePanic ==
  crashed /\ workers[<<"c1", 1>>].entries = 1 /\ workers[<<"c1", 2>>].kind = "panic"

\* the goroutine of w waits to push its error onto the full error queue
blockedOnErrors(w) == workers[w].pc = "sendErr" /\ ~chanHasRoom(errors, ErrorsCap)

\* a goroutine that waits on the full error queue goes on waiting
stallStays == [][\A w \in WorkerIds : blockedOnErrors(w) => blockedOnErrors(w)']_vars

\* a call that returns nil has left no goroutine waiting on the error queue
noStallOnNil ==
  \A c \in Callers : returnedNil(c) => \A w \in workersOf(c) : ~blockedOnErrors(w)

\* C21: while nobody receives from the error queue, the ProcessFile call of a
\* goroutine that waits to push an error beyond the queue's capacity does not
\* return.
C21_NeverReturns ==
  \A w \in WorkerIds : blockedOnErrors(w) => callers[w[1]].pc # "returned"

\* C22: once Close has been called after ProcessFile has returned, no goroutine
\* panics on a send to a closed queue.
C22_NoSendOnClosed ==
  \A w \in WorkerIds : ~(workers[w].pc = "panicked" /\ workers[w].kind \in {"entry", "error"})

\* C23: the line number of every error on the error queue is the 1-based
\* position in the stream of the line that failed.
C23_StreamLineNumber ==
  \A i \in 1..Len(errors) : errors[i].lineNum = errors[i].from[2]

\* the goroutine of w has been started
started(w) == workers[w].pc \notin {"none", "skipped"}

pushedEntries == Cardinality({w \in WorkerIds : workers[w].entries = 1})
pushedErrors == Cardinality({w \in WorkerIds : workers[w].errs = 1})

\* the goroutine of w waits to push onto a full queue
blockedOnSend(w) ==
  \/ blockedOnErrors(w)
  \/ workers[w].pc = "sendEntry" /\ ~chanHasRoom(processedLogs, LogsCap)

\* C30: TotalProcessed is at most the number of entries pushed so far and
\* Errors at most the number of errors pushed so far; a goroutine that waits
\* on a full queue has pushed nothing, so its line is in neither count.
C30_CountersBehind ==
  /\ stats.TotalProcessed <= pushedEntries
  /\ stats.Errors <= pushedErrors
  /\ \A w \in WorkerIds : workers[w].entries <= 1 /\ workers[w].errs <= 1
  /\ \A w \in WorkerIds : blockedOnSend(w) => outcomes(w) = 0

\* a goroutine waits on the full output queue while the entry of the other
\* line has been pushed and counted
C30_Witness ==
  /\ \E w \in WorkerIds : workers[w].pc = "sendEntry" /\ blockedOnSend(w)
  /\ stats.TotalProcessed = 1
  /\ pushedEntries = 1

\* C29: in the server the processLogFile call of an upload comes to its end,
\* with the storeProcessedLogs goroutine started or with the read error handed
\* back, unless a panic ends the process first.
C29_UploadIngested ==
  (callers["c1"].pc = "scan") ~> (crashed \/ callers["c1"].pc \in {"storing", "failed"})

\* a goroutine of the upload waits on the full output queue before any
\* storeProcessedLogs goroutine has been started
outputStall ==
  /\ ~storing
  /\ \E w \in WorkerIds : workers[w].pc = "sendEntry" /\ ~chanHasRoom(processedLogs, LogsCap)
  /\ callers["c1"].pc = "wait"

\* a token as it stands between its quotes, when it stands between quotes
unquoted(tok) ==
  IF Len(tok) >= 2 /\ tok[1] = QUOTE /\ tok[Len(tok)] = QUOTE
  THEN SubSeq(tok, 2, Len(tok) - 1)
  ELSE tok

\* Tokenize has run on the line of pIn
tokenized == pOut # NoParse /\ "parts" \in DOMAIN pOut

\* C24: the tokenizer gives one token for each space-separated segment of the
\* line, a quoted segment without its quotes and otherwise as it stands, so
\* that every token keeps the place of its segment.
C24_QuotedSegments ==
  tokenized =>
    /\ Len(pOut.parts) = Len(pIn)
    /\ \A i \in 1..Len(pIn) : pOut.parts[i] = unquoted(TokenText(i, pIn[i]))

\* parse has run on the line of pIn
parsedLine == pOut # NoParse /\ "parts" \notin DOMAIN pOut

\* C25: an apache or nginx line of 9 or more tokens gives the error of the
\* first check that fails when its IP, its timestamp or its status code is not
\* valid, and no entry; a generic line of 3 or more fields gives an entry, with
\* the time of the parse as its timestamp when its first two fields are no
\* timestamp.
C25_FieldChecks ==
  parsedLine =>
    LET r == pOut.result IN
    /\ pOut.logType \in {"apache", "nginx"} /\ Len(pIn) >= 9 =>
         /\ pIn[1] # "a" => r = Error("invalid IP address")
         /\ pIn[1] = "a" /\ (pIn[4] # "a" \/ pIn[5] # "a") => r = Error("invalid timestamp")
         /\ (\A i \in {1, 4, 5, 6} : pIn[i] = "a") /\ pIn[7] # "a" =>
              r = Error("invalid status code")
    /\ pOut.logType = "generic" /\ fieldCount(pIn) >= 3 =>
         /\ r.kind = "entry"
         /\ r.entry.Timestamp.ok
         /\ pIn[1] # "g" \/ pIn[2] # "g" =>
              r.entry.Timestamp = [NowTime EXCEPT !.sec = r.entry.Timestamp.sec]
         /\ pIn[1] = "g" /\ pIn[2] = "g" => r.entry.Timestamp.pm # "now"

\* a full apache line whose status code alone is no integer has been rejected
C25_Witness ==
  /\ parsedLine
  /\ pOut.logType = "apache"
  /\ Len(pIn) = 10
  /\ \A i \in 1..10 : pIn[i] = IF i = 7 THEN "x" ELSE "a"
  /\ pOut.result = Error("invalid status code")

\* C26: no entry carries a negative response size.
C26_NonNegativeSize ==
  parsedLine /\ pOut.result.kind = "entry" => pOut.result.entry.ResponseSize >= 0

\* the summary of the entries of data on a ReportData made anew, the maps
\* ranged over in the ascending order of their keys
ascending(counts) ==
  [i \in 1..Cardinality(DOMAIN counts) |-> KeyAt(DOMAIN counts, i)]

freshSummary ==
  prepareSummary([NewReportData EXCEPT !.LogEntries = data.LogEntries],
                 ascending(pathCounts(data.LogEntries)), ascending(ipCounts(data.LogEntries)))

\* C27: the summary of a ReportData is the summary its entries give on a
\* ReportData made anew, in every field that the order of a map does not touch;
\* for no entries ErrorRate and AvgResponseTime are 0.
C27_PureFunction ==
  data.prepared =>
    /\ data.Summary.TotalRequests = freshSummary.TotalRequests
    /\ data.Summary.UniqueIPs = freshSummary.UniqueIPs
    /\ FloatEq(data.Summary.AvgResponseTime, freshSummary.AvgResponseTime)
    /\ FloatEq(data.Summary.ErrorRate, freshSummary.ErrorRate)
    /\ data.Summary.StatusCodeBreakdown = freshSummary.StatusCodeBreakdown
    /\ data.Summary.HourlyTraffic = freshSummary.HourlyTraffic
    /\ data.LogEntries = <<>> =>
         /\ FloatEq(data.Summary.ErrorRate, FloatZero)
         /\ FloatEq(data.Summary.AvgResponseTime, FloatZero)

====
